---- MODULE Spec2Model ----
(***************************************************************************)
(* A model of crates/ui/src/mcp.rs: the in-process IPC server that lets    *)
(* an external controller observe and drive a running GPUI application.    *)
(*                                                                         *)
(*   Spec     the listener, the connection handlers, the dispatch bridge   *)
(*            and the request router with its method handlers              *)
(*   SpecLog  the lock-guarded log ring buffer under concurrent mcp_log    *)
(*            calls                                                        *)
(*   SpecHandle  one router step, handle_request on a request that waits   *)
(*            in the bridge, over a range of hosts, logs and requests      *)
(*   SpecTree  one router step on a get_element request, over the orders   *)
(*            in which a window may report its inspector records           *)
(*   SpecRouter  the server with one click per connection and with the     *)
(*            histories of the bridge and the router; SpecWait and         *)
(*            SpecTick add the scheduling of the connection handlers and   *)
(*            of the router                                                *)
(***************************************************************************)
EXTENDS Integers, Sequences, FiniteSets, TLC

(***************************************************************************)
(* Program constants                                                       *)
(***************************************************************************)

\* const MAX_LOG_ENTRIES: usize = 500
MAX_LOG_ENTRIES == 500

(***************************************************************************)
(* Bounds of the model                                                     *)
(***************************************************************************)

\* threads calling mcp_log concurrently (SpecLog)
NumLogThreads == 2
\* mcp_log calls started after Init, all threads together (SpecLog)
MaxLogCalls == 3

LogThreads == 1..NumLogThreads

\* connections the peers open (Spec)
NumConns == 2
\* request frames a peer sends on one connection (Spec)
MaxFrames == 2

Conns == 1..NumConns

\* failed accepts of the listener
MaxAcceptErrors == 2

\* the messages the concurrent callers log (SpecLog)
LogMsgs == {<<"m1">>, <<"m2">>}

VARIABLES
    logBuffer,    \* LOG_BUFFER: the VecDeque<String>, front first
    lockHolder,   \* the thread holding LOG_BUFFER's mutex, 0 when it is free
    logPc,        \* per logging thread: its position inside mcp_log
    logMsg,       \* per logging thread: the message of its call in progress
    logCalls,     \* mcp_log calls started since Init
    pushed,       \* history: every message ever pushed, in push order
    snapshot      \* the last copy handle_get_logs took of the buffer

logVars == <<logBuffer, lockHolder, logPc, logMsg, logCalls, pushed, snapshot>>

VARIABLES
    host,         \* the UI Host: cx.windows() and cx.active_window()
    hostEvents,   \* history: the input events dispatched to the host
    listenerPc,   \* run_ipc_listener: "start", "accept" or "failed"
    connPc,       \* per connection: the position of handle_ipc_connection
    framesRead,   \* per connection: requests read = reply channels created
    chanBuf,      \* per connection: what is queued in the current resp_rx
    connResp,     \* per connection: the local `response`, about to be written
    bridge,       \* the queue between req_tx and req_rx
    routerPc,     \* the polling task: "timer", "drain" or "send"
    routerMsg,    \* the router's (ipc_response, resp_tx) before its send
    submitted,    \* history, per connection: the requests sent to the bridge
    written,      \* history, per connection: the response frames written
    timedOut,     \* history: the reply channels whose recv_timeout timed out
    incoming,     \* history: what listener.incoming() yielded, in order: the
                  \* connection of an Ok(stream), 0 for an Err
    enqueued,     \* history: the reply channels of the requests sent to the
                  \* bridge, in send order, each with whether the router
                  \* was inside its while-let loop at that moment
    handledSeq,   \* history: the requests the router handled, in order:
                  \* the reply channel, whether its recv_timeout had timed
                  \* out before, and what became of resp_tx.send
    traced,       \* whether enqueued and handledSeq are kept: they are
                  \* where each connection sends one request (SpecRouter)
    peers         \* what the peers do (see PeerKinds)

ipcVars == <<host, hostEvents, listenerPc, connPc, framesRead, chanBuf,
             connResp, bridge, routerPc, routerMsg, submitted, written,
             timedOut, incoming, enqueued, handledSeq, traced, peers>>

vars == <<logVars, ipcVars>>

(***************************************************************************)
(* The log ring buffer                                                     *)
(***************************************************************************)

\* if buffer.len() >= MAX_LOG_ENTRIES { buffer.pop_front(); }
EvictOffByOne(buffer) ==
    IF Len(buffer) > MAX_LOG_ENTRIES THEN Tail(buffer) ELSE buffer

EvictNewest(buffer) ==
    IF Len(buffer) >= MAX_LOG_ENTRIES
    THEN SubSeq(buffer, 1, Len(buffer) - 1)
    ELSE buffer

EvictIfFull(buffer) ==
    IF Len(buffer) >= MAX_LOG_ENTRIES THEN Tail(buffer) ELSE buffer

\* buffer.push_back(message.into())
PushBack(buffer, message) == Append(buffer, message)

\* mcp_log as one step: what a call does to the buffer while it holds the lock
mcp_log(buffer, message) == PushBack(EvictIfFull(buffer), message)

\* How many entries the hosting process has logged on its own, one call
\* after the other, when the concurrent callers start: none, and enough to
\* leave the buffer nearly full, full, and full with one entry evicted.
ConcurrentStarts ==
    {0, MAX_LOG_ENTRIES - 2, MAX_LOG_ENTRIES - 1, MAX_LOG_ENTRIES,
     MAX_LOG_ENTRIES + 1}

\* the most calls the hosting process makes on its own
MaxPriorCalls == MAX_LOG_ENTRIES + 1

\* the message of the hosting process's n-th call
AppMessage(n) == <<"app", ToString(n)>>

\* init_mcp has not been called: no listener, no connection, no router
IpcIdle ==
    /\ host = [windows |-> <<>>, active |-> 0]
    /\ hostEvents = <<>>
    /\ listenerPc = "none"
    /\ connPc = [c \in Conns |-> "none"]
    /\ framesRead = [c \in Conns |-> 0]
    /\ chanBuf = [c \in Conns |-> <<>>]
    /\ connResp = [c \in Conns |-> <<>>]
    /\ bridge = <<>>
    /\ routerPc = "none"
    /\ routerMsg = <<>>
    /\ submitted = [c \in Conns |-> <<>>]
    /\ written = [c \in Conns |-> <<>>]
    /\ timedOut = {}
    /\ incoming = <<>>
    /\ enqueued = <<>>
    /\ handledSeq = <<>>
    /\ traced = FALSE
    /\ peers = "none"

\* LOG_BUFFER is created empty and unlocked
InitLog ==
    /\ logBuffer = <<>>
    /\ pushed = <<>>
    /\ lockHolder = 0
    /\ logPc = [t \in LogThreads |-> "idle"]
    /\ logMsg = [t \in LogThreads |-> <<>>]
    /\ logCalls = 0
    /\ snapshot = <<>>
    /\ IpcIdle

\* the hosting process calls mcp_log while no other thread logs: the call
\* takes the free lock, evicts, pushes and unlocks
AppLog ==
    /\ logCalls = 0
    /\ lockHolder = 0
    /\ Len(pushed) < MaxPriorCalls
    /\ logBuffer' = mcp_log(logBuffer, AppMessage(Len(pushed) + 1))
    /\ pushed' = Append(pushed, AppMessage(Len(pushed) + 1))
    /\ UNCHANGED <<lockHolder, logPc, logMsg, logCalls, snapshot, ipcVars>>

\* a thread calls mcp_log(message)
LogCall(t, m) ==
    /\ logPc[t] = "idle"
    /\ logCalls < MaxLogCalls
    /\ logCalls = 0 => Len(pushed) \in ConcurrentStarts
    /\ logCalls' = logCalls + 1
    /\ logMsg' = [logMsg EXCEPT ![t] = m]
    /\ logPc' = [logPc EXCEPT ![t] = "lock"]
    /\ UNCHANGED <<logBuffer, lockHolder, pushed, snapshot, ipcVars>>

\* whether LOG_BUFFER.lock() may return to thread t
LockUnguarded(t) == TRUE

LockFree(t) == lockHolder = 0

\* if let Ok(mut buffer) = LOG_BUFFER.lock()
LogLock(t) ==
    /\ logPc[t] = "lock"
    /\ LockFree(t)
    /\ lockHolder' = t
    /\ logPc' = [logPc EXCEPT ![t] = "evict"]
    /\ UNCHANGED <<logBuffer, logMsg, logCalls, pushed, snapshot, ipcVars>>

\* if buffer.len() >= MAX_LOG_ENTRIES { buffer.pop_front(); }
LogEvict(t) ==
    /\ logPc[t] = "evict"
    /\ logBuffer' = EvictIfFull(logBuffer)
    /\ logPc' = [logPc EXCEPT ![t] = "push"]
    /\ UNCHANGED <<lockHolder, logMsg, logCalls, pushed, snapshot, ipcVars>>

\* buffer.push_back(message.into())
LogPush(t) ==
    /\ logPc[t] = "push"
    /\ logBuffer' = PushBack(logBuffer, logMsg[t])
    /\ pushed' = Append(pushed, logMsg[t])
    /\ logPc' = [logPc EXCEPT ![t] = "unlock"]
    /\ UNCHANGED <<lockHolder, logMsg, logCalls, snapshot, ipcVars>>

\* the guard goes out of scope at the end of the if-let
LogUnlock(t) ==
    /\ logPc[t] = "unlock"
    /\ lockHolder' = 0
    /\ logPc' = [logPc EXCEPT ![t] = "idle"]
    /\ logMsg' = [logMsg EXCEPT ![t] = <<>>]
    /\ UNCHANGED <<logBuffer, logCalls, pushed, snapshot, ipcVars>>

\* LOG_BUFFER.lock().map(|buffer| buffer.iter().cloned().collect())
CopyReversed(buffer) == [i \in 1..Len(buffer) |-> buffer[Len(buffer) + 1 - i]]

CopyBuffer(buffer) == [i \in 1..Len(buffer) |-> buffer[i]]

\* handle_get_logs run by the UI context among the concurrent callers:
\* lock, copy, unlock
LogRead ==
    /\ logCalls > 0
    /\ lockHolder = 0
    /\ snapshot' = CopyBuffer(logBuffer)
    /\ UNCHANGED <<logBuffer, lockHolder, logPc, logMsg, logCalls, pushed, ipcVars>>

NextLog ==
    \/ AppLog
    \/ \E t \in LogThreads, m \in LogMsgs : LogCall(t, m)
    \/ \E t \in LogThreads : LogLock(t)
    \/ \E t \in LogThreads : LogEvict(t)
    \/ \E t \in LogThreads : LogPush(t)
    \/ \E t \in LogThreads : LogUnlock(t)
    \/ LogRead

SpecLog == InitLog /\ [][NextLog]_vars

(***************************************************************************)
(* Values on the wire                                                      *)
(*                                                                         *)
(* Text that the code only passes along or compares whole is a TLA+        *)
(* string.  Text the code takes apart (window ids, global ids, element     *)
(* queries, source locations) is a sequence of one-character strings.      *)
(* Formatted text, format!("..{}..", a), is the tuple of its pieces.       *)
(***************************************************************************)

\* Result<serde_json::Value, String>
Ok(v) == [ok |-> TRUE, value |-> v]
Err(e) == [ok |-> FALSE, error |-> e]

\* IpcRequest { id, method, params }
IpcRequest(id, method, params) ==
    [id |-> id, method |-> method, params |-> params]

\* the request method names (protocol::methods)
GET_WINDOWS == "get_windows"
CLICK_ELEMENT == "click_element"
SEND_KEY == "send_key"
GET_APP_STATE == "get_app_state"
GET_LOGS == "get_logs"
INSPECT_UI_TREE == "inspect_ui_tree"
GET_ELEMENT == "get_element"
TAKE_SCREENSHOT == "take_screenshot"
EXECUTE_ACTION == "execute_action"

\* params values, by the shape serde_json::from_value finds in them
NullParams == [kind |-> "null"]
ClickParams(x, y, button) ==
    [kind |-> "click", x |-> x, y |-> y, button |-> button]
KeyParams(key, ctrl, alt, shift, meta) ==
    [kind |-> "key", key |-> key,
     modifiers |-> [ctrl |-> ctrl, alt |-> alt, shift |-> shift, meta |-> meta]]
ElementParams(element_id) == [kind |-> "element", element_id |-> element_id]
ActionParams(action, args) ==
    [kind |-> "action", action |-> action, args |-> args]

\* the text of a serde decoding error for the named target type
DecodeError(type) == <<"invalid params for ", type>>

\* what a handler returns to handle_request, with its effects: the result,
\* the log buffer it leaves and the input events it dispatched to the host
Outcome(result, buffer, events) ==
    [result |-> result, log |-> buffer, events |-> events]

(***************************************************************************)
(* The UI Host as the handlers see it                                      *)
(*   host.windows  cx.windows(), in enumeration order                      *)
(*   host.active   cx.active_window(): an index into windows, 0 for None   *)
(***************************************************************************)

\* f32::from(p)
px_to_f32(p) == p

\* gpui::Bounds<Pixels> -> protocol::Bounds
convert_bounds(b) ==
    [x |-> px_to_f32(b.x), y |-> px_to_f32(b.y),
     width |-> px_to_f32(b.width), height |-> px_to_f32(b.height)]

\* Option<T> as a sequence of at most one value
None == <<>>
Some(v) == <<v>>

ActiveWindowId(h) ==
    IF h.active = 0 THEN None ELSE Some(h.windows[h.active].id)

\* handle_get_windows: one WindowInfo per window; the array is wrapped in a
\* record so that every result value is a record
handle_get_windows(h, buffer) ==
    LET info(i) ==
            LET w == h.windows[i]
            IN  [id |-> w.id, title |-> w.title,
                 bounds |-> convert_bounds(w.bounds),
                 is_active |-> (ActiveWindowId(h) = Some(w.id)),
                 display_id |-> None]
    IN  Outcome(Ok([windows |-> [i \in 1..Len(h.windows) |-> info(i)]]),
                buffer, <<>>)

\* the log line of a click
ClickLogLine(x, y) == <<"Click at (", ToString(x), ", ", ToString(y), ")">>

\* (a click handler that logs before it looks for the active window)
handle_click_element_logs_first(params, h, buffer) ==
    IF params.kind # "click" \/ params.button \notin {"Left", "Right", "Middle"}
    THEN Outcome(Err(DecodeError("ClickEvent")), buffer, <<>>)
    ELSE IF h.active = 0
    THEN Outcome(Err(<<"No active window">>),
                 mcp_log(buffer, ClickLogLine(params.x, params.y)), <<>>)
    ELSE Outcome(Ok([success |-> TRUE]),
                 mcp_log(buffer, ClickLogLine(params.x, params.y)),
                 <<[kind |-> "click", window |-> h.windows[h.active].id,
                    position |-> <<params.x, params.y>>,
                    button |-> params.button]>>)

\* handle_click_element
handle_click_element(params, h, buffer) ==
    IF params.kind # "click" \/ params.button \notin {"Left", "Right", "Middle"}
    THEN Outcome(Err(DecodeError("ClickEvent")), buffer, <<>>)
    ELSE IF h.active = 0
    THEN Outcome(Err(<<"No active window">>), buffer, <<>>)
    ELSE Outcome(Ok([success |-> TRUE]),
                 mcp_log(buffer, ClickLogLine(params.x, params.y)),
                 <<[kind |-> "click", window |-> h.windows[h.active].id,
                    position |-> <<params.x, params.y>>,
                    button |-> params.button]>>)

\* (a chord with shift ahead of ctrl and alt)
KeystrokeStrShiftFirst(event) ==
    (IF event.modifiers.shift THEN "shift-" ELSE "")
    \o (IF event.modifiers.ctrl THEN "ctrl-" ELSE "")
    \o (IF event.modifiers.alt THEN "alt-" ELSE "")
    \o (IF event.modifiers.meta THEN "cmd-" ELSE "")
    \o event.key

\* Keystroke-String bauen: [ctrl-][alt-][shift-][cmd-]key
KeystrokeStr(event) ==
    (IF event.modifiers.ctrl THEN "ctrl-" ELSE "")
    \o (IF event.modifiers.alt THEN "alt-" ELSE "")
    \o (IF event.modifiers.shift THEN "shift-" ELSE "")
    \o (IF event.modifiers.meta THEN "cmd-" ELSE "")
    \o event.key

\* Keystroke::parse(&keystroke_str) of the host: it rejects a chord that
\* names no key
KeystrokeParses(event) == event.key # ""

\* the log line of a keystroke
KeyLogLine(chord, dispatched) ==
    <<"Key '", chord, "' dispatched: ", ToString(dispatched)>>

\* (a key handler that looks for the active window before it parses)
handle_send_key_window_first(params, h, buffer, handled) ==
    IF params.kind # "key"
    THEN Outcome(Err(DecodeError("KeyEvent")), buffer, <<>>)
    ELSE IF h.active = 0
    THEN Outcome(Err(<<"No active window">>), buffer, <<>>)
    ELSE IF ~KeystrokeParses(params)
    THEN Outcome(Err(<<"InvalidKeystroke", KeystrokeStr(params)>>), buffer, <<>>)
    ELSE Outcome(Ok([success |-> TRUE, dispatched |-> handled]),
                 mcp_log(buffer, KeyLogLine(KeystrokeStr(params), handled)),
                 <<[kind |-> "key", window |-> h.windows[h.active].id,
                    keystroke |-> KeystrokeStr(params)]>>)

\* handle_send_key; `handled` is what the window's dispatch_keystroke returns
handle_send_key(params, h, buffer, handled) ==
    IF params.kind # "key"
    THEN Outcome(Err(DecodeError("KeyEvent")), buffer, <<>>)
    ELSE IF ~KeystrokeParses(params)
    THEN Outcome(Err(<<"InvalidKeystroke", KeystrokeStr(params)>>), buffer, <<>>)
    ELSE IF h.active = 0
    THEN Outcome(Err(<<"No active window">>), buffer, <<>>)
    ELSE Outcome(Ok([success |-> TRUE, dispatched |-> handled]),
                 mcp_log(buffer, KeyLogLine(KeystrokeStr(params), handled)),
                 <<[kind |-> "key", window |-> h.windows[h.active].id,
                    keystroke |-> KeystrokeStr(params)]>>)

\* (a summary that also writes a line to the log)
handle_get_app_state_logged(h, buffer) ==
    LET summary(i) ==
            LET w == h.windows[i]
            IN  [id |-> w.id, title |-> w.title,
                 bounds |-> convert_bounds(w.bounds)]
    IN  Outcome(Ok([window_count |-> Len(h.windows),
                    active_window |-> ActiveWindowId(h),
                    windows |-> [i \in 1..Len(h.windows) |-> summary(i)]]),
                mcp_log(buffer, <<"App state">>), <<>>)

\* handle_get_app_state
handle_get_app_state(h, buffer) ==
    LET summary(i) ==
            LET w == h.windows[i]
            IN  [id |-> w.id, title |-> w.title,
                 bounds |-> convert_bounds(w.bounds)]
    IN  Outcome(Ok([window_count |-> Len(h.windows),
                    active_window |-> ActiveWindowId(h),
                    windows |-> [i \in 1..Len(h.windows) |-> summary(i)]]),
                buffer, <<>>)

\* handle_get_logs
handle_get_logs(buffer) ==
    Outcome(Ok([logs |-> CopyBuffer(buffer)]), buffer, <<>>)

\* (a handler that decodes its params and fails on any it does not know)
handle_take_screenshot_decoding(params, buffer) ==
    IF params.kind # "null"
    THEN Outcome(Err(DecodeError("ScreenshotParams")), buffer, <<>>)
    ELSE Outcome(Ok([error |-> "Screenshots are not yet supported (requires test-support feature)",
                     png_base64 |-> "",
                     width |-> 0,
                     height |-> 0,
                     highlighted_elements |-> <<>>]),
                 buffer, <<>>)

\* handle_take_screenshot
handle_take_screenshot(params, buffer) ==
    Outcome(Ok([error |-> "Screenshots are not yet supported (requires test-support feature)",
                png_base64 |-> "",
                width |-> 0,
                height |-> 0,
                highlighted_elements |-> <<>>]),
            buffer, <<>>)

\* (an execute_action that records nothing)
handle_execute_action_silent(params, buffer) ==
    IF params.kind # "action"
    THEN Outcome(Err(DecodeError("ExecuteActionParams")), buffer, <<>>)
    ELSE Outcome(Ok([status |-> "not_implemented",
                     message |-> <<"Dynamic action dispatch not yet supported. Action: '",
                                   params.action, "', Args: ", params.args>>]),
                 buffer,
                 <<>>)

\* handle_execute_action
handle_execute_action(params, buffer) ==
    IF params.kind # "action"
    THEN Outcome(Err(DecodeError("ExecuteActionParams")), buffer, <<>>)
    ELSE Outcome(Ok([status |-> "not_implemented",
                     message |-> <<"Dynamic action dispatch not yet supported. Action: '",
                                   params.action, "', Args: ", params.args>>]),
                 mcp_log(buffer, <<"Execute action: ", params.action,
                                   " (args: ", params.args, ")">>),
                 <<>>)

(***************************************************************************)
(* Text as sequences of characters                                         *)
(***************************************************************************)

Min(a, b) == IF a <= b THEN a ELSE b

\* the characters of the model in byte order (str::cmp compares bytes)
ByteOrder ==
    <<".", "/", "0", "1", "2", "3", "4", "5", "6", "7", "8", "9", "E",
      "[", "]", "_", "a", "b", "c", "d", "e", "f", "g", "h", "i", "j", "k",
      "l", "m", "n", "o", "p", "q", "r", "s", "t", "u", "v", "w", "x", "y",
      "z">>

ByteRank(c) == CHOOSE i \in 1..Len(ByteOrder) : ByteOrder[i] = c

SetMin(S) == CHOOSE x \in S : \A y \in S : x <= y
SetMax(S) == CHOOSE x \in S : \A y \in S : x >= y

\* a.cmp(b) on strings: -1, 0 or 1
StrCmp(a, b) ==
    LET n == Min(Len(a), Len(b))
        diff == {i \in 1..n : a[i] # b[i]}
    IN  IF diff # {}
        THEN IF ByteRank(a[SetMin(diff)]) < ByteRank(b[SetMin(diff)])
             THEN -1 ELSE 1
        ELSE IF Len(a) < Len(b) THEN -1
        ELSE IF Len(a) > Len(b) THEN 1
        ELSE 0

\* s.starts_with(prefix)
StartsWith(s, prefix) ==
    /\ Len(prefix) <= Len(s)
    /\ SubSeq(s, 1, Len(prefix)) = prefix

\* (an ends_with that no text satisfies with the empty suffix)
EndsWithSome(s, suffix) ==
    /\ 0 < Len(suffix) /\ Len(suffix) <= Len(s)
    /\ SubSeq(s, Len(s) - Len(suffix) + 1, Len(s)) = suffix

\* s.ends_with(suffix)
EndsWith(s, suffix) ==
    /\ Len(suffix) <= Len(s)
    /\ SubSeq(s, Len(s) - Len(suffix) + 1, Len(s)) = suffix

\* format!("{}", n) of an unsigned integer
RECURSIVE Decimal(_)
Decimal(n) ==
    IF n < 10 THEN <<ByteOrder[n + 3]>>
    ELSE Append(Decimal(n \div 10), ByteOrder[(n % 10) + 3])

\* s.rsplit('/').next(): the text after the last '/'
RSplitSlashNext(s) ==
    LET at == {i \in 1..Len(s) : s[i] = "/"}
    IN  Some(IF at = {} THEN s ELSE SubSeq(s, SetMax(at) + 1, Len(s)))

\* filename.split('.').next(): the text before the first '.'
SplitDotNext(s) ==
    LET at == {i \in 1..Len(s) : s[i] = "."}
    IN  Some(IF at = {} THEN s ELSE SubSeq(s, 1, SetMin(at) - 1))

\* Option::and_then, Option::unwrap_or
UnwrapOr(opt, default) == IF opt = None THEN default ELSE opt[1]

\* Element-Typ aus dem Dateinamen der Source-Location extrahieren
ElementType(source_location) ==
    LET filename == RSplitSlashNext(source_location)
        stem == IF filename = None THEN None ELSE SplitDotNext(filename[1])
    IN  UnwrapOr(stem, <<"E", "l", "e", "m", "e", "n", "t">>)

\* format!("{}/{}[{}]", window_id, info.global_id, info.instance_id)
FullId(window_id, info) ==
    window_id \o <<"/">> \o info.global_id \o <<"[">>
        \o Decimal(info.instance_id) \o <<"]">>

\* the UiElement made of one inspector record, without children
LeafElement(window_id, info) ==
    [id |-> FullId(window_id, info),
     element_type |-> ElementType(info.source_location),
     bounds |-> convert_bounds(info.bounds),
     visible |-> TRUE,
     children |-> <<>>,
     properties |-> [instance_id |-> info.instance_id,
                     content_mask |-> convert_bounds(info.content_mask)],
     source_location |-> Some(info.source_location),
     style_json |-> None,
     content_size |-> Some(<<convert_bounds(info.bounds).width,
                             convert_bounds(info.bounds).height>>)]

(***************************************************************************)
(* build_element_tree                                                      *)
(***************************************************************************)

\* a.global_id.matches('.').count()
Depth(global_id) ==
    Cardinality({i \in 1..Len(global_id) : global_id[i] = "."})

\* Flache Eintraege erzeugen
FlatEntries(window_id, elements) ==
    [i \in 1..Len(elements) |->
        [full_id |-> FullId(window_id, elements[i]),
         global_id |-> elements[i].global_id,
         element |-> LeafElement(window_id, elements[i])]]

\* the comparison of entries.sort_by: depth, then global_id
EntryCmp(a, b) ==
    IF Depth(a.global_id) < Depth(b.global_id) THEN -1
    ELSE IF Depth(a.global_id) > Depth(b.global_id) THEN 1
    ELSE StrCmp(a.global_id, b.global_id)

\* (no sort: the entries stay as the host gave them)
SortEntriesSkipped(entries) == entries

\* entries.sort_by(..): a stable sort, equal entries keep their input order
SortEntries(entries) ==
    LET n == Len(entries)
        before(j, i) ==
            \/ EntryCmp(entries[j], entries[i]) < 0
            \/ EntryCmp(entries[j], entries[i]) = 0 /\ j < i
        rank(i) == Cardinality({j \in 1..n : before(j, i)}) + 1
    IN  [k \in 1..n |-> entries[CHOOSE i \in 1..n : rank(i) = k]]

\* the HashMaps filled from the sorted entries: a later insert of the same
\* key replaces the earlier one
MapOf(entries, field) ==
    LET keys == {entries[i].full_id : i \in 1..Len(entries)}
        last(k) == SetMax({i \in 1..Len(entries) : entries[i].full_id = k})
    IN  [k \in keys |-> entries[last(k)][field]]

\* map.remove(key)
MapRemove(map, key) == [k \in DOMAIN map \ {key} |-> map[k]]

\* (a candidate test that takes any prefix, the whole id included)
IsAnyPrefix(child_global, candidate_global) ==
    StartsWith(child_global, candidate_global)

\* (a candidate test that does not look at the byte after the prefix)
IsStrictPrefix(child_global, candidate_global) ==
    /\ StartsWith(child_global, candidate_global)
    /\ Len(child_global) > Len(candidate_global)

\* whether entry j is a parent candidate of the child with global id
\* child_global: a strict prefix that ends where the child has a '.'
IsPrefixCandidate(child_global, candidate_global) ==
    /\ StartsWith(child_global, candidate_global)
    /\ Len(child_global) > Len(candidate_global)
    /\ child_global[Len(candidate_global) + 1] = "."

\* (an inner loop that settles for the shortest candidate)
BestParentShortest(order, id_to_global, i) ==
    LET child_global == id_to_global[order[i]]
        cands == {j \in 1..Len(order) :
                    /\ j # i
                    /\ IsPrefixCandidate(child_global, id_to_global[order[j]])
                    /\ Len(id_to_global[order[j]]) > 0}
        shortest == SetMin({Len(id_to_global[order[j]]) : j \in cands})
    IN  IF cands = {} THEN 0
        ELSE SetMin({j \in cands : Len(id_to_global[order[j]]) = shortest})

\* (a scan that takes a candidate as long as the best so far: the last of
\* the longest wins)
BestParentLastOfEqual(order, id_to_global, i) ==
    LET child_global == id_to_global[order[i]]
        cands == {j \in 1..Len(order) :
                    /\ j # i
                    /\ IsPrefixCandidate(child_global, id_to_global[order[j]])
                    /\ Len(id_to_global[order[j]]) > 0}
        best_prefix_len ==
            SetMax({Len(id_to_global[order[j]]) : j \in cands})
    IN  IF cands = {} THEN 0
        ELSE SetMax({j \in cands :
                        Len(id_to_global[order[j]]) = best_prefix_len})

\* the inner loop over j: the first index with the longest candidate global
\* id (longer than best_prefix_len's initial 0), 0 when there is none
BestParent(order, id_to_global, i) ==
    LET child_global == id_to_global[order[i]]
        cands == {j \in 1..Len(order) :
                    /\ j # i
                    /\ IsPrefixCandidate(child_global, id_to_global[order[j]])
                    /\ Len(id_to_global[order[j]]) > 0}
        best_prefix_len ==
            SetMax({Len(id_to_global[order[j]]) : j \in cands})
    IN  IF cands = {} THEN 0
        ELSE SetMin({j \in cands :
                        Len(id_to_global[order[j]]) = best_prefix_len})

\* (a pass that hands a copy of the child to the parent and leaves the
\* child in the map, unmarked)
AssignChildKeepsCopy(st, order, id_to_global, i) ==
    LET child_id == order[i]
        j == BestParent(order, id_to_global, i)
    IN  IF j = 0 \/ child_id \notin DOMAIN st.elems THEN st
        ELSE [st EXCEPT !.elems[order[j]].children =
                            Append(@, st.elems[child_id])]

\* (a pass that hands the child to the parent without the child's own
\* children)
AssignChildAlone(st, order, id_to_global, i) ==
    LET child_id == order[i]
        j == BestParent(order, id_to_global, i)
    IN  IF j = 0 \/ child_id \notin DOMAIN st.elems THEN st
        ELSE LET parent_id == order[j]
                 child_elem == [st.elems[child_id] EXCEPT !.children = <<>>]
                 removed == MapRemove(st.elems, child_id)
             IN  IF parent_id \notin DOMAIN removed
                 THEN [st EXCEPT !.elems = removed]
                 ELSE [elems |->
                          [removed EXCEPT ![parent_id].children =
                              Append(@, child_elem)],
                       assigned |-> st.assigned \cup {child_id}]

\* (a pass that puts the child in front of the parent's children)
AssignChildInFront(st, order, id_to_global, i) ==
    LET child_id == order[i]
        j == BestParent(order, id_to_global, i)
    IN  IF j = 0 \/ child_id \notin DOMAIN st.elems THEN st
        ELSE LET parent_id == order[j]
                 child_elem == st.elems[child_id]
                 removed == MapRemove(st.elems, child_id)
             IN  IF parent_id \notin DOMAIN removed
                 THEN [st EXCEPT !.elems = removed]
                 ELSE [elems |->
                          [removed EXCEPT ![parent_id].children =
                              <<child_elem>> \o @],
                       assigned |-> st.assigned \cup {child_id}]

\* one pass of the outer loop, for index i; st.elems is id_to_element and
\* st.assigned the keys of child_assigned
AssignChild(st, order, id_to_global, i) ==
    LET child_id == order[i]
        j == BestParent(order, id_to_global, i)
    IN  IF j = 0 \/ child_id \notin DOMAIN st.elems THEN st
        ELSE LET parent_id == order[j]
                 child_elem == st.elems[child_id]
                 removed == MapRemove(st.elems, child_id)
             IN  IF parent_id \notin DOMAIN removed
                 THEN [st EXCEPT !.elems = removed]
                 ELSE [elems |->
                          [removed EXCEPT ![parent_id].children =
                              Append(@, child_elem)],
                       assigned |-> st.assigned \cup {child_id}]

\* for i in (0..insertion_order.len()).rev()
RECURSIVE AssignFrom(_, _, _, _)
AssignFrom(st, order, id_to_global, i) ==
    IF i = 0 THEN st
    ELSE AssignFrom(AssignChild(st, order, id_to_global, i),
                    order, id_to_global, i - 1)

\* insertion_order.iter().filter(not assigned).filter_map(remove).collect()
RECURSIVE CollectRoots(_, _, _, _)
CollectRoots(elems, assigned, order, i) ==
    IF i > Len(order) THEN <<>>
    ELSE IF order[i] \in assigned \/ order[i] \notin DOMAIN elems
    THEN CollectRoots(elems, assigned, order, i + 1)
    ELSE <<elems[order[i]]>>
         \o CollectRoots(MapRemove(elems, order[i]), assigned, order, i + 1)

build_element_tree(window_id, elements) ==
    LET entries == SortEntries(FlatEntries(window_id, elements))
        id_to_element == MapOf(entries, "element")
        id_to_global == MapOf(entries, "global_id")
        insertion_order == [i \in 1..Len(entries) |-> entries[i].full_id]
        st == AssignFrom([elems |-> id_to_element, assigned |-> {}],
                         insertion_order, id_to_global, Len(insertion_order))
    IN  CollectRoots(st.elems, st.assigned, insertion_order, 1)

\* "Window".to_string(), "Application".to_string()
WindowType == <<"W", "i", "n", "d", "o", "w">>
ApplicationType ==
    <<"A", "p", "p", "l", "i", "c", "a", "t", "i", "o", "n">>

\* the Window node of handle_inspect_ui_tree
InspectWindowNode(h, i) ==
    LET w == h.windows[i]
        converted == convert_bounds(w.bounds)
    IN  [id |-> w.id,
         element_type |-> WindowType,
         bounds |-> converted,
         visible |-> TRUE,
         children |-> build_element_tree(w.id, w.elements),
         properties |-> [title |-> w.title,
                         is_active |-> (ActiveWindowId(h) = Some(w.id))],
         source_location |-> None,
         style_json |-> None,
         content_size |-> Some(<<converted.width, converted.height>>)]

\* (an inspect_ui_tree that shows the active window alone)
handle_inspect_ui_tree_active(h, buffer, now) ==
    Outcome(Ok([root |->
                    [id |-> <<"a", "p", "p">>,
                     element_type |-> ApplicationType,
                     bounds |-> [x |-> 0, y |-> 0, width |-> 0, height |-> 0],
                     visible |-> TRUE,
                     children |->
                         IF h.active = 0 THEN <<>>
                         ELSE <<InspectWindowNode(h, h.active)>>,
                     properties |-> <<>>,
                     source_location |-> None,
                     style_json |-> None,
                     content_size |-> None],
                window_count |-> Len(h.windows),
                timestamp |-> now]),
            buffer, <<>>)

\* handle_inspect_ui_tree; `now` is the capture time in seconds
handle_inspect_ui_tree(h, buffer, now) ==
    Outcome(Ok([root |->
                    [id |-> <<"a", "p", "p">>,
                     element_type |-> ApplicationType,
                     bounds |-> [x |-> 0, y |-> 0, width |-> 0, height |-> 0],
                     visible |-> TRUE,
                     children |->
                         [i \in 1..Len(h.windows) |-> InspectWindowNode(h, i)],
                     properties |-> <<>>,
                     source_location |-> None,
                     style_json |-> None,
                     content_size |-> None],
                window_count |-> Len(h.windows),
                timestamp |-> now]),
            buffer, <<>>)

\* (a window node that leaves its children out)
GetElementWindowNodeBare(w) ==
    LET converted == convert_bounds(w.bounds)
    IN  [id |-> w.id,
         element_type |-> WindowType,
         bounds |-> converted,
         visible |-> TRUE,
         children |-> <<>>,
         properties |-> [title |-> w.title],
         source_location |-> None,
         style_json |-> None,
         content_size |-> Some(<<converted.width, converted.height>>)]

\* the Window node of handle_get_element
GetElementWindowNode(w) ==
    LET converted == convert_bounds(w.bounds)
    IN  [id |-> w.id,
         element_type |-> WindowType,
         bounds |-> converted,
         visible |-> TRUE,
         children |-> build_element_tree(w.id, w.elements),
         properties |-> [title |-> w.title],
         source_location |-> None,
         style_json |-> None,
         content_size |-> Some(<<converted.width, converted.height>>)]

\* (a match that knows no global-id suffix)
RecordMatchesExact(window_id, info, query) ==
    \/ FullId(window_id, info) = query
    \/ info.global_id = query

\* full_id == *query || info.global_id == *query || info.global_id.ends_with(query)
RecordMatches(window_id, info, query) ==
    \/ FullId(window_id, info) = query
    \/ info.global_id = query
    \/ EndsWith(info.global_id, query)

\* (a scan that keeps the last record that matches)
FindInWindowLastHit(w, query) ==
    IF w.id = query THEN Some(GetElementWindowNode(w))
    ELSE LET hits == {k \in 1..Len(w.elements) :
                         RecordMatches(w.id, w.elements[k], query)}
         IN  IF hits = {} THEN None
             ELSE Some(LeafElement(w.id, w.elements[SetMax(hits)]))

\* the closure handle_get_element runs in one window: Some(element) or None
FindInWindow(w, query) ==
    IF w.id = query THEN Some(GetElementWindowNode(w))
    ELSE LET hits == {k \in 1..Len(w.elements) :
                         RecordMatches(w.id, w.elements[k], query)}
         IN  IF hits = {} THEN None
             ELSE Some(LeafElement(w.id, w.elements[SetMin(hits)]))

\* handle_get_element
handle_get_element(params, h, buffer) ==
    IF params.kind # "element"
    THEN Outcome(Err(DecodeError("GetElementParams")), buffer, <<>>)
    ELSE LET query == params.element_id
             found == {i \in 1..Len(h.windows) :
                          FindInWindow(h.windows[i], query) # None}
         IN  IF found = {}
             THEN Outcome(Err(<<"Element not found: ", query>>), buffer, <<>>)
             ELSE Outcome(Ok(Head(FindInWindow(h.windows[SetMin(found)],
                                               query))),
                          buffer, <<>>)

(***************************************************************************)
(* handle_request                                                          *)
(***************************************************************************)

\* _ => Err(format!("Unknown method: {}", request.method))
UnknownMethodLogged(request, buffer) ==
    Outcome(Err(<<"Unknown method: ", request.method>>),
            mcp_log(buffer, <<"Unknown method: ", request.method>>), <<>>)

UnknownMethod(request, buffer) ==
    Outcome(Err(<<"Unknown method: ", request.method>>), buffer, <<>>)

\* the match on request.method; `handled` and `now` are what the host
\* answers to a dispatched keystroke and the clock reads
MethodResult(request, h, buffer, handled, now) ==
    CASE request.method = GET_WINDOWS -> handle_get_windows(h, buffer)
      [] request.method = CLICK_ELEMENT ->
            handle_click_element(request.params, h, buffer)
      [] request.method = SEND_KEY ->
            handle_send_key(request.params, h, buffer, handled)
      [] request.method = GET_APP_STATE -> handle_get_app_state(h, buffer)
      [] request.method = GET_LOGS -> handle_get_logs(buffer)
      [] request.method = INSPECT_UI_TREE ->
            handle_inspect_ui_tree(h, buffer, now)
      [] request.method = GET_ELEMENT ->
            handle_get_element(request.params, h, buffer)
      [] request.method = TAKE_SCREENSHOT ->
            handle_take_screenshot(request.params, buffer)
      [] request.method = EXECUTE_ACTION ->
            handle_execute_action(request.params, buffer)
      [] OTHER -> UnknownMethod(request, buffer)

\* IpcResponse { id: request.id.clone(), result }
handle_request(request, h, buffer, handled, now) ==
    LET out == MethodResult(request, h, buffer, handled, now)
    IN  [response |-> [id |-> request.id, result |-> out.result],
         log |-> out.log,
         events |-> out.events]

(***************************************************************************)
(* The server: listener, connection handlers, bridge, router (Spec)        *)
(***************************************************************************)

\* text as characters
W1Id == <<"w", "1">>
W2Id == <<"w", "2">>
DivRs == <<"s", "r", "c", "/", "d", "i", "v", ".", "r", "s">>

UnitBounds == [x |-> 0, y |-> 0, width |-> 1, height |-> 1]

\* an InspectorElementInfo of the host
Inspected(global_id, instance_id) ==
    [global_id |-> global_id, instance_id |-> instance_id,
     bounds |-> UnitBounds, source_location |-> DivRs,
     content_mask |-> UnitBounds]

Window1 ==
    [id |-> W1Id, title |-> "Main", bounds |-> UnitBounds,
     elements |-> <<Inspected(<<"a", ".", "b">>, 0), Inspected(<<"a">>, 0)>>]

\* the hosts of Spec: a window that is active, and the same window with no
\* window active
ActiveHost == [windows |-> <<Window1>>, active |-> 1]
SpecHosts == {ActiveHost, [windows |-> <<Window1>>, active |-> 0]}

\* What the peers do, chosen at the start.
\*   "many"  NumConns connections, each sending a log query or a click
\*   "wide"  one connection sending requests that succeed and requests
\*           that fail in each way a request can fail
ManyRequests ==
    {IpcRequest("1", GET_LOGS, NullParams),
     IpcRequest("2", CLICK_ELEMENT, ClickParams(1, 2, "Left"))}

\* what the peers send while accepts fail now and then
FlakyRequests == {IpcRequest("1", GET_LOGS, NullParams)}

WideRequests ==
    {IpcRequest("7", mp[1], mp[2]) :
        mp \in {<<TAKE_SCREENSHOT, NullParams>>,
                <<CLICK_ELEMENT, ClickParams(1, 2, "Left")>>,
                <<CLICK_ELEMENT, NullParams>>,
                <<SEND_KEY, KeyParams("s", TRUE, FALSE, TRUE, FALSE)>>,
                <<SEND_KEY, KeyParams("", TRUE, FALSE, FALSE, FALSE)>>,
                <<GET_ELEMENT, ElementParams(<<"z">>)>>,
                <<"GET_LOGS", NullParams>>}}

\* what each of NumConns peers sends where it sends one request: a click
OnceRequests == {IpcRequest("2", CLICK_ELEMENT, ClickParams(1, 2, "Left"))}

PeerKinds == {"many", "wide", "flaky"}
PeerConns(kind) == IF kind = "wide" THEN 1 ELSE NumConns
PeerFrames(kind) == IF kind = "once" THEN 1 ELSE MaxFrames
PeerRequests(kind) ==
    CASE kind = "many" -> ManyRequests
      [] kind = "wide" -> WideRequests
      [] kind = "once" -> OnceRequests
      [] OTHER -> FlakyRequests

\* the seconds since the epoch the clock may read during a request
Clock == {1000}

\* the socket path of init_mcp
SocketPath == "/tmp/gpui-mcp.sock"

\* mcp_log(format!("MCP IPC Server gestartet auf {}", socket_path))
StartedLog == mcp_log(<<>>, <<"MCP IPC Server gestartet auf ", SocketPath>>)

\* the reply channel of connection c's n-th request; NoChan marks a response
\* that came through no channel
Chan(c, n) == [conn |-> c, n |-> n]
NoChan == Chan(0, 0)

\* IpcResponse { id: String::new(), result: Err("Request timeout".into()) }
TimeoutResponse == [id |-> "", result |-> Err(<<"Request timeout">>)]

\* init_mcp: the listener thread is spawned, the start is logged, the
\* polling task is spawned
Started(kinds, keep) ==
    /\ peers \in kinds
    /\ traced = keep
    /\ logBuffer = StartedLog
    /\ pushed = <<>>
    /\ lockHolder = 0
    /\ logPc = [t \in LogThreads |-> "idle"]
    /\ logMsg = [t \in LogThreads |-> <<>>]
    /\ logCalls = 0
    /\ snapshot = <<>>
    /\ host \in IF peers = "wide" THEN SpecHosts ELSE {ActiveHost}
    /\ hostEvents = <<>>
    /\ listenerPc = "start"
    /\ connPc = [c \in Conns |-> "none"]
    /\ framesRead = [c \in Conns |-> 0]
    /\ chanBuf = [c \in Conns |-> <<>>]
    /\ connResp = [c \in Conns |-> <<>>]
    /\ bridge = <<>>
    /\ routerPc = "timer"
    /\ routerMsg = <<>>
    /\ submitted = [c \in Conns |-> <<>>]
    /\ written = [c \in Conns |-> <<>>]
    /\ timedOut = {}
    /\ incoming = <<>>
    /\ enqueued = <<>>
    /\ handledSeq = <<>>

Init == Started(PeerKinds, FALSE)

\* what the variables that only SpecLog moves, and the peers' kind, do in Spec
LogStill ==
    UNCHANGED <<lockHolder, logPc, logMsg, logCalls, pushed, snapshot, peers,
                traced>>

\* the same, for the steps that send nothing to the bridge and are not the
\* router's
LogIdle == LogStill /\ UNCHANGED <<enqueued, handledSeq>>

\* the same, for the steps that are no timeout
Quiet == LogIdle /\ UNCHANGED <<timedOut, incoming>>

\* let listener = UnixListener::bind(socket_path)?  succeeds
ListenerBind ==
    /\ listenerPc = "start"
    /\ listenerPc' = "accept"
    /\ UNCHANGED <<logBuffer, host, hostEvents, connPc, framesRead, chanBuf,
                   connResp, bridge, routerPc, routerMsg, submitted, written>>
    /\ Quiet

\* let listener = UnixListener::bind(socket_path)?  fails: the thread ends
ListenerBindFail ==
    /\ listenerPc = "start"
    /\ listenerPc' = "failed"
    /\ UNCHANGED <<logBuffer, host, hostEvents, connPc, framesRead, chanBuf,
                   connResp, bridge, routerPc, routerMsg, submitted, written>>
    /\ Quiet

\* (a listener that accepts only while no handler waits for a reply)
ListenerAcceptWhenIdle(c) ==
    /\ listenerPc = "accept"
    /\ \A b \in Conns : connPc[b] # "wait"
    /\ c <= PeerConns(peers)
    /\ connPc[c] = "none"
    /\ \A b \in Conns : b < c => connPc[b] # "none"
    /\ connPc' = [connPc EXCEPT ![c] = "read"]
    /\ incoming' = Append(incoming, c)
    /\ UNCHANGED <<logBuffer, host, hostEvents, listenerPc, framesRead,
                   chanBuf, connResp, bridge, routerPc, routerMsg, submitted,
                   written, timedOut>>
    /\ LogIdle

\* for stream in listener.incoming(): Ok(stream), a handler thread is spawned
ListenerAccept(c) ==
    /\ listenerPc = "accept"
    /\ c <= PeerConns(peers)
    /\ connPc[c] = "none"
    /\ \A b \in Conns : b < c => connPc[b] # "none"
    /\ connPc' = [connPc EXCEPT ![c] = "read"]
    /\ incoming' = Append(incoming, c)
    /\ UNCHANGED <<logBuffer, host, hostEvents, listenerPc, framesRead,
                   chanBuf, connResp, bridge, routerPc, routerMsg, submitted,
                   written, timedOut>>
    /\ LogIdle

\* the Err results listener.incoming() has yielded
AcceptErrors == Cardinality({k \in 1..Len(incoming) : incoming[k] = 0})

\* (a listener whose loop ends at the first failed accept)
ListenerAcceptErrorEndsLoop ==
    /\ listenerPc = "accept"
    /\ peers = "flaky"
    /\ AcceptErrors < MaxAcceptErrors
    /\ incoming' = Append(incoming, 0)
    /\ listenerPc' = "failed"
    /\ UNCHANGED <<logBuffer, host, hostEvents, connPc, framesRead,
                   chanBuf, connResp, bridge, routerPc, routerMsg, submitted,
                   written, timedOut>>
    /\ LogIdle

\* for stream in listener.incoming(): Err(e), printed, the loop goes on
ListenerAcceptError ==
    /\ listenerPc = "accept"
    /\ peers = "flaky"
    /\ AcceptErrors < MaxAcceptErrors
    /\ incoming' = Append(incoming, 0)
    /\ UNCHANGED <<logBuffer, host, hostEvents, listenerPc, connPc,
                   framesRead, chanBuf, connResp, bridge, routerPc,
                   routerMsg, submitted, written, timedOut>>
    /\ LogIdle

\* (a reader that takes the next line while a response is still owed)
AtLoopHeadPipelined(c) == connPc[c] \in {"read", "wait"}

\* `for line in reader.lines()` asks for the next line only at the head of
\* the loop, after the previous iteration's flush
AtLoopHead(c) == connPc[c] = "read"

\* a line is read and decoded, the request goes to the bridge with the
\* sender of a fresh reply channel
ConnReadRequest(c, request) ==
    /\ AtLoopHead(c)
    /\ framesRead[c] < PeerFrames(peers)
    /\ request \in PeerRequests(peers)
    /\ framesRead' = [framesRead EXCEPT ![c] = @ + 1]
    /\ chanBuf' = [chanBuf EXCEPT ![c] = <<>>]
    /\ bridge' = Append(bridge, [request |-> request,
                                 chan |-> Chan(c, framesRead[c] + 1)])
    /\ submitted' = [submitted EXCEPT ![c] = Append(@, request)]
    /\ connPc' = [connPc EXCEPT ![c] = "wait"]
    /\ enqueued' = IF traced
                   THEN Append(enqueued,
                               [chan |-> Chan(c, framesRead[c] + 1),
                                draining |-> routerPc # "timer"])
                   ELSE enqueued
    /\ UNCHANGED <<logBuffer, host, hostEvents, listenerPc, connResp,
                   routerPc, routerMsg, written, timedOut, incoming,
                   handledSeq>>
    /\ LogStill

\* where handle_ipc_connection is after the frame it read ends it
\*   "io"      let line = line?  fails: the handler returns Err
\*   "decode"  serde_json::from_str(&line)?  fails: the handler returns Err
\*   "eof"     the peer has closed, reader.lines() ends: it returns Ok(())
BadFrames == {"io", "decode", "eof"}
EndOf(frame) == IF frame = "eof" THEN "done" ELSE "failed"

\* (a handler that answers the bad frame with an error response)
ConnReadEndsWithReply(c, frame) ==
    /\ connPc[c] = "read"
    /\ connPc' = [connPc EXCEPT ![c] = EndOf(frame)]
    /\ written' = [written EXCEPT ![c] =
                      Append(@, [response |-> [id |-> "",
                                               result |-> Err(<<"Bad request">>)],
                                 from |-> NoChan])]
    /\ UNCHANGED <<logBuffer, host, hostEvents, listenerPc, framesRead,
                   chanBuf, connResp, bridge, routerPc, routerMsg, submitted>>
    /\ Quiet

\* the handler reads a frame that ends it
ConnReadEnds(c, frame) ==
    /\ connPc[c] = "read"
    /\ connPc' = [connPc EXCEPT ![c] = EndOf(frame)]
    /\ UNCHANGED <<logBuffer, host, hostEvents, listenerPc, framesRead,
                   chanBuf, connResp, bridge, routerPc, routerMsg, submitted,
                   written>>
    /\ Quiet

\* resp_rx.recv_timeout(..) returns the reply
ConnRecvReply(c) ==
    /\ connPc[c] = "wait"
    /\ chanBuf[c] # <<>>
    /\ connResp' = [connResp EXCEPT ![c] = <<Head(chanBuf[c])>>]
    /\ chanBuf' = [chanBuf EXCEPT ![c] = Tail(@)]
    /\ connPc' = [connPc EXCEPT ![c] = "write"]
    /\ UNCHANGED <<logBuffer, host, hostEvents, listenerPc, framesRead,
                   bridge, routerPc, routerMsg, submitted, written>>
    /\ Quiet

\* (a handler that gives up on a timeout without building a response)
ConnRecvTimeoutNoReply(c) ==
    /\ connPc[c] = "wait"
    /\ chanBuf[c] = <<>>
    /\ connPc' = [connPc EXCEPT ![c] = "read"]
    /\ timedOut' = timedOut \cup {Chan(c, framesRead[c])}
    /\ UNCHANGED incoming
    /\ UNCHANGED <<logBuffer, host, hostEvents, listenerPc, framesRead,
                   chanBuf, connResp, bridge, routerPc, routerMsg, submitted,
                   written>>
    /\ LogIdle

\* (a handler whose recv has no timeout)
ConnRecvBlocks(c) ==
    /\ connPc[c] = "wait"
    /\ chanBuf[c] = <<>>
    /\ UNCHANGED vars

\* resp_rx.recv_timeout(..) returns Err after 10 s without a reply:
\* unwrap_or_else builds the timeout response
ConnRecvTimeout(c) ==
    /\ connPc[c] = "wait"
    /\ chanBuf[c] = <<>>
    /\ connResp' = [connResp EXCEPT ![c] =
                        <<[response |-> TimeoutResponse, from |-> NoChan]>>]
    /\ connPc' = [connPc EXCEPT ![c] = "write"]
    /\ UNCHANGED <<logBuffer, host, hostEvents, listenerPc, framesRead,
                   chanBuf, bridge, routerPc, routerMsg, submitted, written>>
    /\ timedOut' = timedOut \cup {Chan(c, framesRead[c])}
    /\ UNCHANGED incoming
    /\ LogIdle

\* (a handler that closes the connection after an Err response)
ConnWriteClosesOnErr(c) ==
    /\ connPc[c] = "write"
    /\ written' = [written EXCEPT ![c] = Append(@, connResp[c][1])]
    /\ connResp' = [connResp EXCEPT ![c] = <<>>]
    /\ chanBuf' = [chanBuf EXCEPT ![c] = <<>>]
    /\ connPc' = [connPc EXCEPT ![c] =
                     IF connResp[c][1].response.result.ok THEN "read"
                     ELSE "done"]
    /\ UNCHANGED <<logBuffer, host, hostEvents, listenerPc, framesRead,
                   bridge, routerPc, routerMsg, submitted>>
    /\ Quiet

\* the response is encoded, written with its newline and flushed; the
\* iteration ends and resp_rx is dropped
ConnWrite(c) ==
    /\ connPc[c] = "write"
    /\ written' = [written EXCEPT ![c] = Append(@, connResp[c][1])]
    /\ connResp' = [connResp EXCEPT ![c] = <<>>]
    /\ chanBuf' = [chanBuf EXCEPT ![c] = <<>>]
    /\ connPc' = [connPc EXCEPT ![c] = "read"]
    /\ UNCHANGED <<logBuffer, host, hostEvents, listenerPc, framesRead,
                   bridge, routerPc, routerMsg, submitted>>
    /\ Quiet

\* write_all or flush fails (the peer is gone): the handler returns Err
ConnWriteError(c) ==
    /\ connPc[c] = "write"
    /\ connResp' = [connResp EXCEPT ![c] = <<>>]
    /\ chanBuf' = [chanBuf EXCEPT ![c] = <<>>]
    /\ connPc' = [connPc EXCEPT ![c] = "writeFailed"]
    /\ UNCHANGED <<logBuffer, host, hostEvents, listenerPc, framesRead,
                   bridge, routerPc, routerMsg, submitted, written>>
    /\ Quiet

\* the 10 ms timer of the polling task fires
RouterWake ==
    /\ routerPc = "timer"
    /\ routerPc' = "drain"
    /\ UNCHANGED <<logBuffer, host, hostEvents, listenerPc, connPc,
                   framesRead, chanBuf, connResp, bridge, routerMsg,
                   submitted, written>>
    /\ Quiet

\* (a router that takes the next request before it has sent the last reply)
RouterHandleOverlapping(handled, now) ==
    /\ routerPc \in {"drain", "send"}
    /\ bridge # <<>>
    /\ \E out \in {handle_request(Head(bridge).request, host, logBuffer,
                                    handled, now)} :
          /\ logBuffer' = out.log
          /\ hostEvents' = hostEvents \o out.events
          /\ routerMsg' = <<[response |-> out.response,
                             chan |-> Head(bridge).chan]>>
    /\ bridge' = Tail(bridge)
    /\ routerPc' = "send"
    /\ handledSeq' = IF traced
                     THEN Append(handledSeq,
                                 [chan |-> Head(bridge).chan,
                                  late |-> Head(bridge).chan \in timedOut,
                                  sent |-> "pending"])
                     ELSE handledSeq
    /\ UNCHANGED <<host, listenerPc, connPc, framesRead, chanBuf, connResp,
                   submitted, written, timedOut, incoming, enqueued>>
    /\ LogStill

\* (a router that takes the newest request of the bridge first)
RouterHandleNewestFirst(handled, now) ==
    /\ routerPc = "drain"
    /\ bridge # <<>>
    /\ \E out \in {handle_request(bridge[Len(bridge)].request, host,
                                    logBuffer, handled, now)} :
          /\ logBuffer' = out.log
          /\ hostEvents' = hostEvents \o out.events
          /\ routerMsg' = <<[response |-> out.response,
                             chan |-> bridge[Len(bridge)].chan]>>
    /\ bridge' = SubSeq(bridge, 1, Len(bridge) - 1)
    /\ routerPc' = "send"
    /\ handledSeq' = IF traced
                     THEN Append(handledSeq,
                                 [chan |-> bridge[Len(bridge)].chan,
                                  late |-> bridge[Len(bridge)].chan
                                              \in timedOut,
                                  sent |-> "pending"])
                     ELSE handledSeq
    /\ UNCHANGED <<host, listenerPc, connPc, framesRead, chanBuf, connResp,
                   submitted, written, timedOut, incoming, enqueued>>
    /\ LogStill

\* (a router that drops a request whose handler has timed out)
RouterHandleSkipsTimedOut(handled, now) ==
    /\ routerPc = "drain"
    /\ bridge # <<>>
    /\ IF Head(bridge).chan \in timedOut
       THEN /\ routerPc' = "drain"
            /\ UNCHANGED <<logBuffer, hostEvents, routerMsg, handledSeq>>
       ELSE /\ \E out \in {handle_request(Head(bridge).request, host,
                                           logBuffer, handled, now)} :
                  /\ logBuffer' = out.log
                  /\ hostEvents' = hostEvents \o out.events
                  /\ routerMsg' = <<[response |-> out.response,
                                     chan |-> Head(bridge).chan]>>
            /\ routerPc' = "send"
            /\ handledSeq' = IF traced
                             THEN Append(handledSeq,
                                         [chan |-> Head(bridge).chan,
                                          late |-> FALSE,
                                          sent |-> "pending"])
                             ELSE handledSeq
    /\ bridge' = Tail(bridge)
    /\ UNCHANGED <<host, listenerPc, connPc, framesRead, chanBuf, connResp,
                   submitted, written, timedOut, incoming, enqueued>>
    /\ LogStill

\* req_rx.try_recv() is Ok: cx.update(|cx| handle_request(&request, cx))
RouterHandle(handled, now) ==
    /\ routerPc = "drain"
    /\ bridge # <<>>
    /\ \E out \in {handle_request(Head(bridge).request, host, logBuffer,
                                    handled, now)} :
          /\ logBuffer' = out.log
          /\ hostEvents' = hostEvents \o out.events
          /\ routerMsg' = <<[response |-> out.response,
                             chan |-> Head(bridge).chan]>>
    /\ bridge' = Tail(bridge)
    /\ routerPc' = "send"
    /\ handledSeq' = IF traced
                     THEN Append(handledSeq,
                                 [chan |-> Head(bridge).chan,
                                  late |-> Head(bridge).chan \in timedOut,
                                  sent |-> "pending"])
                     ELSE handledSeq
    /\ UNCHANGED <<host, listenerPc, connPc, framesRead, chanBuf, connResp,
                   submitted, written, timedOut, incoming, enqueued>>
    /\ LogStill

\* whether the receiver of a reply channel still exists: resp_rx lives from
\* the channel's creation to the end of that loop iteration
ReceiverAliveAnyIteration(chan) ==
    connPc[chan.conn] \in {"wait", "write"}

ReceiverAlive(chan) ==
    /\ connPc[chan.conn] \in {"wait", "write"}
    /\ framesRead[chan.conn] = chan.n

\* (a router that sends every reply on one channel per connection, read by
\* whichever iteration of the handler is waiting)
RouterSendPerConnection ==
    /\ routerPc = "send"
    /\ LET msg == routerMsg[1]
       IN  chanBuf' =
               IF connPc[msg.chan.conn] \in {"wait", "write"}
               THEN [chanBuf EXCEPT ![msg.chan.conn] =
                        Append(@, [response |-> msg.response,
                                   from |-> msg.chan])]
               ELSE chanBuf
    /\ routerMsg' = <<>>
    /\ routerPc' = "drain"
    /\ handledSeq' = IF traced
                     THEN [handledSeq EXCEPT ![Len(handledSeq)].sent =
                              IF ReceiverAlive(routerMsg[1].chan)
                              THEN "queued" ELSE "lost"]
                     ELSE handledSeq
    /\ UNCHANGED <<logBuffer, host, hostEvents, listenerPc, connPc,
                   framesRead, connResp, bridge, submitted, written,
                   timedOut, incoming, enqueued>>
    /\ LogStill

\* (a router whose task ends when a send fails)
RouterSendStopsOnError ==
    /\ routerPc = "send"
    /\ LET msg == routerMsg[1]
       IN  /\ chanBuf' =
                 IF ReceiverAlive(msg.chan)
                 THEN [chanBuf EXCEPT ![msg.chan.conn] =
                          Append(@, [response |-> msg.response,
                                     from |-> msg.chan])]
                 ELSE chanBuf
           /\ routerPc' = IF ReceiverAlive(msg.chan) THEN "drain"
                          ELSE "stopped"
    /\ routerMsg' = <<>>
    /\ handledSeq' = IF traced
                     THEN [handledSeq EXCEPT ![Len(handledSeq)].sent =
                              IF ReceiverAlive(routerMsg[1].chan)
                              THEN "queued" ELSE "lost"]
                     ELSE handledSeq
    /\ UNCHANGED <<logBuffer, host, hostEvents, listenerPc, connPc,
                   framesRead, connResp, bridge, submitted, written,
                   timedOut, incoming, enqueued>>
    /\ LogStill

\* let _ = resp_tx.send(ipc_response): queued if the receiver exists, else
\* the error is dropped
RouterSend ==
    /\ routerPc = "send"
    /\ LET msg == routerMsg[1]
       IN  chanBuf' =
               IF ReceiverAlive(msg.chan)
               THEN [chanBuf EXCEPT ![msg.chan.conn] =
                        Append(@, [response |-> msg.response,
                                   from |-> msg.chan])]
               ELSE chanBuf
    /\ routerMsg' = <<>>
    /\ routerPc' = "drain"
    /\ handledSeq' = IF traced
                     THEN [handledSeq EXCEPT ![Len(handledSeq)].sent =
                              IF ReceiverAlive(routerMsg[1].chan)
                              THEN "queued" ELSE "lost"]
                     ELSE handledSeq
    /\ UNCHANGED <<logBuffer, host, hostEvents, listenerPc, connPc,
                   framesRead, connResp, bridge, submitted, written,
                   timedOut, incoming, enqueued>>
    /\ LogStill

\* (a router that may go back to its timer with requests still queued)
RouterYieldEarly ==
    /\ routerPc = "drain"
    /\ routerPc' = "timer"
    /\ UNCHANGED <<logBuffer, host, hostEvents, listenerPc, connPc,
                   framesRead, chanBuf, connResp, bridge, routerMsg,
                   submitted, written>>
    /\ Quiet

\* req_rx.try_recv() is Err(Empty): the while-let ends, back to the timer
RouterYield ==
    /\ routerPc = "drain"
    /\ bridge = <<>>
    /\ routerPc' = "timer"
    /\ UNCHANGED <<logBuffer, host, hostEvents, listenerPc, connPc,
                   framesRead, chanBuf, connResp, bridge, routerMsg,
                   submitted, written>>
    /\ Quiet

Next ==
    \/ ListenerBind
    \/ ListenerBindFail
    \/ \E c \in Conns : ListenerAccept(c)
    \/ ListenerAcceptError
    \/ \E c \in Conns,
          request \in ManyRequests \cup WideRequests \cup FlakyRequests
                        \cup OnceRequests :
          ConnReadRequest(c, request)
    \/ \E c \in Conns, frame \in BadFrames : ConnReadEnds(c, frame)
    \/ \E c \in Conns : ConnRecvReply(c)
    \/ \E c \in Conns : ConnRecvTimeout(c)
    \/ \E c \in Conns : ConnWrite(c)
    \/ \E c \in Conns : ConnWriteError(c)
    \/ RouterWake
    \/ \E handled \in BOOLEAN, now \in Clock : RouterHandle(handled, now)
    \/ RouterSend
    \/ RouterYield

Spec == Init /\ [][Next]_vars

(***************************************************************************)
(* The router and the bridge followed request by request (SpecRouter):     *)
(* NumConns peers connect, each sends one click, and the histories         *)
(* enqueued and handledSeq are kept.  No accept fails.                     *)
(***************************************************************************)

InitRouter == Started({"once"}, TRUE)

NextRouter ==
    \/ ListenerBind
    \/ ListenerBindFail
    \/ \E c \in Conns : ListenerAccept(c)
    \/ \E c \in Conns, request \in OnceRequests : ConnReadRequest(c, request)
    \/ \E c \in Conns, frame \in BadFrames : ConnReadEnds(c, frame)
    \/ \E c \in Conns : ConnRecvReply(c)
    \/ \E c \in Conns : ConnRecvTimeout(c)
    \/ \E c \in Conns : ConnWrite(c)
    \/ \E c \in Conns : ConnWriteError(c)
    \/ RouterWake
    \/ \E handled \in BOOLEAN, now \in Clock : RouterHandle(handled, now)
    \/ RouterSend
    \/ RouterYield

SpecRouter == InitRouter /\ [][NextRouter]_vars

\* The connection handlers' threads are scheduled: recv_timeout returns, with
\* the reply or after its 10 s, and a write to the socket returns, done or
\* failed.  Nothing is assumed of the router.
ConnFairness ==
    \A c \in Conns :
        /\ WF_vars(ConnRecvReply(c) \/ ConnRecvTimeout(c))
        /\ WF_vars(ConnWrite(c) \/ ConnWriteError(c))

SpecWait == InitRouter /\ [][NextRouter]_vars /\ ConnFairness

\* The polling task is scheduled: its 10 ms timer fires, and what it does
\* between two awaits (try_recv, cx.update, send) is carried out.  Nothing
\* is assumed of the connection handlers.
RouterFairness ==
    /\ WF_vars(RouterWake)
    /\ WF_vars(\E handled \in BOOLEAN, now \in Clock :
                  RouterHandle(handled, now))
    /\ WF_vars(RouterSend)
    /\ WF_vars(RouterYield)

SpecTick == InitRouter /\ [][NextRouter]_vars /\ RouterFairness

(***************************************************************************)
(* handle_request on its own (SpecHandle): the router is about to handle   *)
(* the one request that connection 1 has sent, for a range of hosts, log   *)
(* buffers and requests                                                    *)
(***************************************************************************)

Window2 ==
    [id |-> W2Id, title |-> "Settings", bounds |-> UnitBounds,
     elements |-> <<Inspected(<<"a">>, 1), Inspected(<<"a">>, 0),
                    Inspected(<<"a", ".", "b">>, 0)>>]

\* a first window with a record whose global id ends in the id of the
\* second window
WindowShadow ==
    [id |-> W1Id, title |-> "Main", bounds |-> UnitBounds,
     elements |-> <<Inspected(<<"a">>, 0),
                    Inspected(<<"p", ".", "w", "2">>, 0)>>]

\* a window that reports no records
WindowBare ==
    [id |-> W1Id, title |-> "Main", bounds |-> UnitBounds,
     elements |-> <<>>]

HandleHosts ==
    SpecHosts
    \cup {[windows |-> <<>>, active |-> 0],
          [windows |-> <<Window1, Window2>>, active |-> 2],
          [windows |-> <<WindowShadow, Window2>>, active |-> 1],
          [windows |-> <<WindowBare, Window2>>, active |-> 0],
          [windows |-> <<WindowBare>>, active |-> 1]}

\* the buffer after init_mcp and after two more lines logged by the hosting
\* process
HandleLogs ==
    {StartedLog,
     mcp_log(mcp_log(StartedLog, AppMessage(1)), AppMessage(2))}

HandleMethods ==
    {GET_WINDOWS, CLICK_ELEMENT, SEND_KEY, GET_APP_STATE, GET_LOGS,
     INSPECT_UI_TREE, GET_ELEMENT, TAKE_SCREENSHOT, EXECUTE_ACTION,
     "GET_LOGS", "get_log", ""}

HandleParams ==
    {NullParams, ClickParams(1, 2, "Left"), ClickParams(3, 4, "Right"),
     ClickParams(1, 2, "Wheel"),
     KeyParams("", TRUE, FALSE, FALSE, FALSE),
     ActionParams("quit", "{}"), ActionParams("", "null")}
    \cup {KeyParams("s", ctrl, alt, shift, meta) :
            ctrl \in BOOLEAN, alt \in BOOLEAN, shift \in BOOLEAN,
            meta \in BOOLEAN}
    \cup {ElementParams(q) :
            q \in {W1Id, W2Id, <<"a">>, <<"b">>, <<"z">>, <<>>,
                   <<"w", "2", "/", "a", "[", "0", "]">>}}

HandleRequests ==
    {IpcRequest(id, method, params) :
        id \in {"", "1"}, method \in HandleMethods, params \in HandleParams}

\* the state in which connection 1 has sent `request`, its first, and the
\* router is about to take it from the bridge
WaitingRequest(h, buffer, request) ==
    /\ peers = "wide"
    /\ logBuffer = buffer
    /\ pushed = <<>>
    /\ lockHolder = 0
    /\ logPc = [t \in LogThreads |-> "idle"]
    /\ logMsg = [t \in LogThreads |-> <<>>]
    /\ logCalls = 0
    /\ snapshot = <<>>
    /\ host = h
    /\ hostEvents = <<>>
    /\ listenerPc = "accept"
    /\ connPc = [c \in Conns |-> IF c = 1 THEN "wait" ELSE "none"]
    /\ framesRead = [c \in Conns |-> IF c = 1 THEN 1 ELSE 0]
    /\ chanBuf = [c \in Conns |-> <<>>]
    /\ connResp = [c \in Conns |-> <<>>]
    /\ bridge = <<[request |-> request, chan |-> Chan(1, 1)]>>
    /\ submitted = [c \in Conns |-> IF c = 1 THEN <<request>> ELSE <<>>]
    /\ routerPc = "drain"
    /\ routerMsg = <<>>
    /\ written = [c \in Conns |-> <<>>]
    /\ timedOut = {}
    /\ incoming = <<1>>
    /\ enqueued = <<>>
    /\ handledSeq = <<>>
    /\ traced = FALSE

InitHandle ==
    \E h \in HandleHosts, buffer \in HandleLogs, request \in HandleRequests :
        WaitingRequest(h, buffer, request)

NextHandle ==
    \E handled \in BOOLEAN, now \in Clock : RouterHandle(handled, now)

SpecHandle == InitHandle /\ [][NextHandle]_vars

(***************************************************************************)
(* build_element_tree on its own (SpecTree): a request for the window      *)
(* node of a window whose inspector records are any few of TreeRecords,    *)
(* in any order                                                            *)
(***************************************************************************)

\* records in one input
MaxRecords == 4

ListRs ==
    <<"u", "i", "/", "l", "i", "s", "t", ".", "r", "s">>

\* the inspector records a window may report: a chain a, a.b, a.b.c, a
\* second child a.d, a second instance of a, an unrelated x, ab (a prefix
\* of no dotted id), a second record with the composite id of a.b, a
\* record with an empty global id and an empty source location, and one
\* whose global id begins with a dot
Unplaced == [Inspected(<<>>, 0) EXCEPT !.source_location = <<>>]

TreeRecords ==
    {Inspected(<<"a">>, 0), Inspected(<<"a">>, 1),
     Inspected(<<"a", ".", "b">>, 0),
     Inspected(<<"a", ".", "b", ".", "c">>, 0),
     Inspected(<<"a", ".", "d">>, 0),
     Inspected(<<"x">>, 0), Inspected(<<"a", "b">>, 0),
     [Inspected(<<"a", ".", "b">>, 0) EXCEPT !.source_location = ListRs],
     Unplaced, Inspected(<<".", "x">>, 0)}

\* every ordering of every set of at most MaxRecords records
TreeInputs ==
    {s \in UNION {[1..n -> TreeRecords] : n \in 0..MaxRecords} :
        \A i, j \in 1..Len(s) : s[i] = s[j] => i = j}

TreeWindow(elements) ==
    [id |-> W1Id, title |-> "Main", bounds |-> UnitBounds,
     elements |-> elements]

InitTree ==
    \E elements \in TreeInputs :
        WaitingRequest([windows |-> <<TreeWindow(elements)>>, active |-> 1],
                       StartedLog,
                       IpcRequest("1", GET_ELEMENT, ElementParams(W1Id)))

\* get_element dispatches no keystroke: there is no result of a dispatch
\* to choose
NextTree ==
    \E now \in Clock : RouterHandle(FALSE, now)

SpecTree == InitTree /\ [][NextTree]_vars

(***************************************************************************)
(* Claims about the log ring buffer (checked under SpecLog)                *)
(***************************************************************************)

\* thread t is inside the critical section of mcp_log
InCritical(t) == logPc[t] \in {"evict", "push", "unlock"}

\* the last n entries of s
LastN(s, n) == SubSeq(s, Len(s) - n + 1, Len(s))

\* C5: in every reachable state, whatever the interleaving of the mcp_log
\* calls of the threads, the buffer holds at most MAX_LOG_ENTRIES entries,
\* and the evict-then-push pair of a call is atomic: while a thread is
\* between its lock and its unlock it holds the lock and no other thread is
\* inside mcp_log's critical section.
C5_LogBounded ==
    /\ Len(logBuffer) <= MAX_LOG_ENTRIES
    /\ \A t \in LogThreads : InCritical(t) => lockHolder = t
    /\ \A t, u \in LogThreads : (InCritical(t) /\ InCritical(u)) => t = u

\* a full buffer that has already evicted, one caller between its evict and
\* its push, another caller waiting for the lock
C5_Witness ==
    /\ Len(pushed) > MAX_LOG_ENTRIES
    /\ \E t, u \in LogThreads :
          /\ logPc[t] = "push"
          /\ logPc[u] = "lock"
          /\ Len(logBuffer) = MAX_LOG_ENTRIES - 1

\* C6: oldest first: whenever no call is in progress, after n pushes the
\* buffer is exactly the last min(n, MAX_LOG_ENTRIES) messages in push order;
\* after MAX_LOG_ENTRIES + 1 pushes the first message is absent and the last
\* one is present.
C6_LogIsLastPushed ==
    lockHolder = 0 =>
        /\ logBuffer = LastN(pushed, Min(Len(pushed), MAX_LOG_ENTRIES))
        /\ Len(pushed) = MAX_LOG_ENTRIES + 1 =>
              /\ \A i \in 1..Len(logBuffer) : logBuffer[i] # pushed[1]
              /\ logBuffer[Len(logBuffer)] = pushed[Len(pushed)]

\* concurrent callers have pushed into a full buffer: MAX_LOG_ENTRIES + 1
\* messages pushed, the last by a concurrent caller, no call in progress
C6_Witness ==
    /\ lockHolder = 0
    /\ Len(pushed) = MAX_LOG_ENTRIES + 1
    /\ logCalls >= 2
    /\ pushed[Len(pushed)] \in LogMsgs
    /\ Len(logBuffer) = MAX_LOG_ENTRIES

(***************************************************************************)
(* Claims about handle_request (SpecHandle)                                *)
(***************************************************************************)

\* the request the router handles in this step, if it handles one
Handling == routerPc = "drain" /\ bridge # <<>> /\ routerPc' = "send"

SupportedMethods ==
    {GET_WINDOWS, CLICK_ELEMENT, SEND_KEY, GET_APP_STATE, GET_LOGS,
     INSPECT_UI_TREE, GET_ELEMENT, TAKE_SCREENSHOT, EXECUTE_ACTION}

\* C7: handling get_logs answers Ok with the lines of the log buffer as it
\* is when the handler runs, oldest first, and changes neither the buffer
\* nor the host.
C7_GetLogsIsSnapshot ==
    [][(Handling /\ Head(bridge).request.method = GET_LOGS)
          => /\ routerMsg' =
                   <<[response |-> [id |-> Head(bridge).request.id,
                                    result |-> Ok([logs |-> logBuffer])],
                      chan |-> Head(bridge).chan]>>
             /\ logBuffer' = logBuffer
             /\ host' = host
             /\ hostEvents' = hostEvents
      ]_vars

C7_Witness ==
    /\ routerPc = "send"
    /\ submitted[1][1].method = GET_LOGS
    /\ routerMsg[1].response.result.ok
    /\ Len(routerMsg[1].response.result.value.logs) = 3
    /\ routerMsg[1].response.result.value.logs[1] # AppMessage(2)
    /\ routerMsg[1].response.result.value.logs[3] = AppMessage(2)
    /\ logBuffer = routerMsg[1].response.result.value.logs

\* C8: a request whose method is none of the nine supported names, compared
\* case-sensitively, is answered Err("Unknown method: <name>") under the
\* request's id; the log buffer and the host are left as they were and no
\* event is dispatched.
C8_UnknownMethod ==
    [][(Handling /\ Head(bridge).request.method \notin SupportedMethods)
          => /\ routerMsg' =
                   <<[response |->
                        [id |-> Head(bridge).request.id,
                         result |-> Err(<<"Unknown method: ",
                                          Head(bridge).request.method>>)],
                      chan |-> Head(bridge).chan]>>
             /\ logBuffer' = logBuffer
             /\ host' = host
             /\ hostEvents' = hostEvents
      ]_vars

C8_Witness ==
    /\ routerPc = "send"
    /\ submitted[1][1].method = "GET_LOGS"
    /\ submitted[1][1].id = "1"
    /\ submitted[1][1].params = ClickParams(1, 2, "Left")
    /\ host.active = 1
    /\ routerMsg[1].response =
          [id |-> "1", result |-> Err(<<"Unknown method: ", "GET_LOGS">>)]
    /\ hostEvents = <<>>

(***************************************************************************)
(* Claims about the connection handlers and the router (Spec)              *)
(***************************************************************************)

\* C1: every response written on a connection has the id of the request it
\* answers, on the reply path and on the timeout path alike.
C1_ResponseIdMatches ==
    \A c \in Conns :
        \A k \in 1..Len(written[c]) :
            /\ k <= Len(submitted[c])
            /\ written[c][k].response.id = submitted[c][k].id

\* C2: each submitted request gets exactly one response frame on its
\* connection: while the handler owes the response the frames written are
\* one fewer than the requests submitted, once it is back at the loop head
\* (or has ended there) they are as many, and never more; only a failed
\* write to the peer leaves the last request without its frame.
C2_ExactlyOneResponse ==
    \A c \in Conns :
        /\ connPc[c] \in {"none", "read", "done", "failed"}
              => Len(written[c]) = Len(submitted[c])
        /\ connPc[c] \in {"wait", "write", "writeFailed"}
              => Len(written[c]) = Len(submitted[c]) - 1

C2_Witness ==
    \E c \in Conns :
        /\ connPc[c] = "read"
        /\ Len(submitted[c]) = 2 /\ Len(written[c]) = 2
        /\ written[c][1].from = NoChan
        /\ written[c][2].from = Chan(c, 2)
        /\ Chan(c, 1) \in timedOut
        /\ hostEvents # <<>>

\* C3: on one connection request N+1 is read only after the response to
\* request N has been written, responses are only ever appended, and the
\* k-th response written is the one for the k-th request (the router's
\* reply to it, or the timeout response built while waiting for it).
C3_Ordered ==
    [][\A c \in Conns :
          /\ submitted'[c] # submitted[c]
                => /\ Len(written[c]) = Len(submitted[c])
                   /\ written'[c] = written[c]
          /\ written'[c] # written[c]
                => /\ written'[c] = Append(written[c], connResp[c][1])
                   /\ Len(written'[c]) = Len(submitted[c])
                   /\ connResp[c][1].from \in {NoChan, Chan(c, Len(submitted[c]))}
      ]_vars

C3_Witness ==
    \E c, d \in Conns :
        /\ c # d
        /\ Len(written[c]) = 2 /\ Len(submitted[c]) = 2
        /\ written[c][1].from = Chan(c, 1) /\ written[c][2].from = Chan(c, 2)
        /\ written[c][1].response.id = submitted[c][1].id
        /\ written[c][2].response.id = submitted[c][2].id
        /\ submitted[c][1].id # submitted[c][2].id
        /\ Len(written[d]) >= 1

\* C4: a request whose wait timed out is answered with Err("Request
\* timeout"), and no reply the router made for a timed-out request is ever
\* written: what is written for the k-th request is the timeout response
\* or the router's reply to that very request, received in time.
C4_TimeoutNotLateResult ==
    \A c \in Conns :
        \A k \in 1..Len(written[c]) :
            /\ Chan(c, k) \in timedOut
                  => /\ written[c][k].response.result = Err(<<"Request timeout">>)
                     /\ written[c][k].from = NoChan
            /\ Chan(c, k) \notin timedOut
                  => written[c][k].from = Chan(c, k)
            /\ written[c][k].from \notin timedOut

\* the router has handled the k-th request of c and sent or dropped its reply
Answered(c, k) ==
    /\ k <= Len(submitted[c])
    /\ \A i \in 1..Len(bridge) : bridge[i].chan # Chan(c, k)
    /\ routerMsg = <<>>

C4_Witness ==
    \E c \in Conns :
        /\ Chan(c, 1) \in timedOut
        /\ Answered(c, 1) /\ Answered(c, 2)
        /\ submitted[c][1].method = CLICK_ELEMENT
        /\ Len(hostEvents) >= 1
        /\ Len(written[c]) = 2
        /\ written[c][1].response.result = Err(<<"Request timeout">>)
        /\ written[c][2].from = Chan(c, 2)
        /\ written[c][2].response.result.ok

\* C37: a response other than the timeout response, where a connection
\* holds it, is the router's reply to the request that connection read
\* last, under that request's id: so it is in the reply channel, in the
\* handler's hands, and, for the k-th response written, with the k-th
\* request read. No reply to an earlier request or to another connection's
\* request is written for a request.
C37_ReplyIsForLatestRequest ==
    \A c \in Conns :
        /\ \A n \in 1..Len(chanBuf[c]) :
              /\ chanBuf[c][n].from = Chan(c, framesRead[c])
              /\ chanBuf[c][n].response.id = submitted[c][framesRead[c]].id
        /\ (connResp[c] # <<>> /\ connResp[c][1].response # TimeoutResponse)
              => /\ connResp[c][1].from = Chan(c, framesRead[c])
                 /\ connResp[c][1].response.id
                       = submitted[c][framesRead[c]].id
        /\ \A k \in 1..Len(written[c]) :
              written[c][k].response # TimeoutResponse
                 => /\ written[c][k].from = Chan(c, k)
                    /\ written[c][k].response.id = submitted[c][k].id

\* the first request of c timed out and the router has since answered it
\* into nothing; the second, under another id, got the router's reply to
\* itself
C37_Witness ==
    \E c \in Conns :
        /\ Chan(c, 1) \in timedOut
        /\ Answered(c, 1)
        /\ Len(written[c]) = 2
        /\ written[c][1].response = TimeoutResponse
        /\ written[c][2].response # TimeoutResponse
        /\ written[c][2].response.id = submitted[c][2].id
        /\ submitted[c][1].id # submitted[c][2].id
        /\ submitted[c][1].method = GET_LOGS
        /\ submitted[c][2].method = CLICK_ELEMENT
        /\ written[c][2].response.result.ok
        /\ Len(hostEvents) >= 1

\* C9: whatever result a response carries, writing it takes the handler
\* back to the head of its loop, where it reads the next request; an Err
\* result never ends the connection.
C9_ErrKeepsConnectionOpen ==
    [][\A c \in Conns :
          /\ (written'[c] # written[c])
                => (connPc'[c] = "read" /\ AtLoopHead(c)')
          /\ (connPc[c] = "read" /\ connPc'[c] # "read")
                => \/ /\ connPc'[c] = "wait"
                      /\ Len(submitted'[c]) = Len(submitted[c]) + 1
                   \/ connPc'[c] \in {"done", "failed"}
      ]_vars

C9_Witness ==
    \E c \in Conns :
        /\ Len(written[c]) = 2
        /\ ~written[c][1].response.result.ok
        /\ written[c][1].from = Chan(c, 1)
        /\ written[c][2].from = Chan(c, 2)
        /\ connPc[c] = "read"

\* C10: a frame that cannot be read or decoded ends its handler and nothing
\* else: that step submits nothing to the bridge and writes nothing to the
\* peer, leaves the accept loop, the router and every other connection
\* where they were, and a handler that has ended never submits or writes
\* again.
C10_BadFrameEndsOnlyItsHandler ==
    [][\A c \in Conns :
          /\ (connPc[c] = "read" /\ connPc'[c] \in {"failed", "done"})
                => /\ bridge' = bridge
                   /\ submitted' = submitted
                   /\ written' = written
                   /\ listenerPc' = listenerPc
                   /\ routerPc' = routerPc /\ routerMsg' = routerMsg
                   /\ chanBuf' = chanBuf /\ connResp' = connResp
                   /\ \A d \in Conns \ {c} : connPc'[d] = connPc[d]
          /\ connPc[c] \in {"failed", "done", "writeFailed"}
                => /\ connPc'[c] = connPc[c]
                   /\ submitted'[c] = submitted[c]
                   /\ written'[c] = written[c]
                   /\ framesRead'[c] = framesRead[c]
      ]_vars

C10_Witness ==
    \E c, d \in Conns :
        /\ connPc[c] = "failed"
        /\ submitted[c] = <<>> /\ written[c] = <<>>
        /\ connPc[d] = "read"
        /\ Len(written[d]) = 2
        /\ written[d][2].from = Chan(d, 2)
        /\ listenerPc = "accept"

(***************************************************************************)
(* Claims about the listener (Spec)                                        *)
(***************************************************************************)

\* the connection the listener accepts next, if the peers open one more
NextConn == Cardinality({c \in Conns : connPc[c] # "none"}) + 1

\* C11: a failed accept leaves the listener in its accept loop and touches
\* no connection, so the next connection is still accepted and gets its
\* own handler; a failed bind ends the listener, for good, with no
\* connection ever accepted.
C11_AcceptErrorGoesOn ==
    /\ [](/\ listenerPc = "failed"
               => (incoming = <<>> /\ \A c \in Conns : connPc[c] = "none")
          /\ (listenerPc = "accept" /\ NextConn <= PeerConns(peers))
               => ENABLED ListenerAccept(NextConn)
          /\ \A c \in Conns :
                connPc[c] # "none"
                    <=> Cardinality({k \in 1..Len(incoming) :
                                        incoming[k] = c}) = 1)
    /\ [][/\ (incoming' # incoming /\ incoming'[Len(incoming')] = 0)
               => (listenerPc' = "accept" /\ connPc' = connPc)
          /\ listenerPc = "failed" => listenerPc' = "failed"
         ]_vars

C11_Witness ==
    /\ incoming = <<0, 1, 0, 2>>
    /\ listenerPc = "accept"
    /\ Len(written[1]) >= 1 /\ Len(written[2]) >= 1
    /\ written[2][1].from = Chan(2, 1)

(***************************************************************************)
(* Claims about the method handlers (SpecHandle)                           *)
(***************************************************************************)

\* the request the router has just handled, and its reply
Handled == submitted[1][1]
Reply == routerMsg[1].response
HasReplied == routerPc = "send"

\* the modifier prefixes of a chord in their order, and the prefixes of
\* the first k modifiers that are set
ModifierOrder == <<"ctrl", "alt", "shift", "meta">>
ModifierPrefix ==
    [ctrl |-> "ctrl-", alt |-> "alt-", shift |-> "shift-", meta |-> "cmd-"]

RECURSIVE PrefixesOf(_, _)
PrefixesOf(modifiers, k) ==
    IF k = 0 THEN ""
    ELSE PrefixesOf(modifiers, k - 1)
         \o (IF modifiers[ModifierOrder[k]]
             THEN ModifierPrefix[ModifierOrder[k]] ELSE "")

\* C16: the chord send_key dispatches and logs is the prefixes of the set
\* modifiers in the order ctrl, alt, shift, meta, followed by the key; for
\* ctrl and shift with the key s it is "ctrl-shift-s".
C16_ChordOrder ==
    (/\ HasReplied /\ Handled.method = SEND_KEY
     /\ Handled.params.kind = "key" /\ Reply.result.ok)
        => LET chord == PrefixesOf(Handled.params.modifiers, 4)
                            \o Handled.params.key
           IN  /\ hostEvents =
                     <<[kind |-> "key", window |-> host.windows[host.active].id,
                        keystroke |-> chord]>>
               /\ logBuffer[Len(logBuffer)][2] = chord
               /\ Handled.params = KeyParams("s", TRUE, FALSE, TRUE, FALSE)
                     => chord = "ctrl-shift-s"

C16_Witness ==
    /\ HasReplied /\ Handled.method = SEND_KEY
    /\ Handled.params = KeyParams("s", TRUE, FALSE, TRUE, FALSE)
    /\ Reply.result.ok
    /\ hostEvents[1].keystroke = "ctrl-shift-s"
    /\ logBuffer[Len(logBuffer)][1] = "Key '"

\* C17: take_screenshot answers Ok with width 0, height 0, an empty
\* png_base64 and an error text that is not empty, the same for every
\* params value, host and log buffer, and changes none of them.
C17_ScreenshotStub ==
    [][(Handling /\ Head(bridge).request.method = TAKE_SCREENSHOT)
          => /\ routerMsg'[1].response.id = Head(bridge).request.id
             /\ routerMsg'[1].response.result.ok
             /\ LET payload == routerMsg'[1].response.result.value
                IN  /\ payload.width = 0 /\ payload.height = 0
                    /\ payload.png_base64 = ""
                    /\ Len(payload.error) > 0
                    /\ payload =
                          handle_take_screenshot(NullParams, <<>>).result.value
             /\ logBuffer' = logBuffer
             /\ host' = host
             /\ hostEvents' = hostEvents
      ]_vars

C17_Witness ==
    /\ HasReplied /\ Handled.method = TAKE_SCREENSHOT
    /\ Handled.params = ClickParams(1, 2, "Wheel")
    /\ host.windows = <<>>
    /\ Len(logBuffer) = 3
    /\ Reply.result.ok
    /\ Reply.result.value.width = 0
    /\ Reply.result.value.png_base64 = ""

\* C20: execute_action with well-formed params answers Ok with status
\* "not_implemented", appends exactly one entry to the log, which names the
\* action and its args, and dispatches nothing to the host.
C20_ExecuteActionStub ==
    [][(/\ Handling
        /\ Head(bridge).request.method = EXECUTE_ACTION
        /\ Head(bridge).request.params.kind = "action")
          => LET asked == Head(bridge).request.params
             IN  /\ routerMsg'[1].response.id = Head(bridge).request.id
                 /\ routerMsg'[1].response.result.ok
                 /\ routerMsg'[1].response.result.value.status
                       = "not_implemented"
                 /\ Len(logBuffer') = Len(logBuffer) + 1
                 /\ SubSeq(logBuffer', 1, Len(logBuffer)) = logBuffer
                 /\ logBuffer'[Len(logBuffer')]
                       = <<"Execute action: ", asked.action,
                           " (args: ", asked.args, ")">>
                 /\ hostEvents' = hostEvents
                 /\ host' = host
      ]_vars

C20_Witness ==
    /\ HasReplied /\ Handled.method = EXECUTE_ACTION
    /\ Handled.params = ActionParams("quit", "{}")
    /\ Reply.result.ok
    /\ Reply.result.value.status = "not_implemented"
    /\ Len(logBuffer) = 4
    /\ logBuffer[4] = <<"Execute action: ", "quit", " (args: ", "{}", ")">>
    /\ hostEvents = <<>>

\* what a step that handles a request leaves behind: no effect at all, or
\* one event dispatched to the host and one line appended to the log
NoEffect ==
    /\ hostEvents' = hostEvents /\ logBuffer' = logBuffer /\ host' = host
OneEventOneLine ==
    /\ Len(hostEvents') = Len(hostEvents) + 1
    /\ SubSeq(hostEvents', 1, Len(hostEvents)) = hostEvents
    /\ Len(logBuffer') = Len(logBuffer) + 1
    /\ SubSeq(logBuffer', 1, Len(logBuffer)) = logBuffer
    /\ host' = host
NoActiveWindow == Err(<<"No active window">>)

\* params that decode as a ClickEvent
ClickWellFormed(params) ==
    params.kind = "click" /\ params.button \in {"Left", "Right", "Middle"}

WindowsNamed(query) ==
    {i \in 1..Len(host.windows) : host.windows[i].id = query}
RecordHit(i, query) ==
    \E k \in 1..Len(host.windows[i].elements) :
        RecordMatches(host.windows[i].id, host.windows[i].elements[k], query)
GetElementReplied ==
    /\ HasReplied /\ Handled.method = GET_ELEMENT
    /\ Handled.params.kind = "element"

\* the reply is the Window node of window i with its inspected subtree
IsWindowNode(result, i) ==
    /\ result.ok
    /\ result.value.id = host.windows[i].id
    /\ result.value.element_type = WindowType
    /\ result.value.properties = [title |-> host.windows[i].title]
    /\ result.value.children =
          build_element_tree(host.windows[i].id, host.windows[i].elements)

\* C18 as stated: a query equal to the id of a live window is answered with
\* that window's node, whatever the windows and their records are.
C18_WindowQueryAlways ==
    GetElementReplied
        => \A i \in WindowsNamed(Handled.params.element_id) :
              IsWindowNode(Reply.result, i)

\* C18: a query equal to the id of a live window is answered with that
\* window's node, its children being build_element_tree of the window's
\* records, provided no record of a window enumerated before it matches
\* the query.
C18_WindowQuery ==
    GetElementReplied
        => \A i \in WindowsNamed(Handled.params.element_id) :
              (\A j \in 1..(i - 1) : ~RecordHit(j, Handled.params.element_id))
                  => IsWindowNode(Reply.result, i)

C18_Witness ==
    /\ GetElementReplied
    /\ Handled.params.element_id = W2Id
    /\ host.windows = <<Window1, Window2>>
    /\ IsWindowNode(Reply.result, 2)
    /\ Len(Reply.result.value.children) = 2
    /\ Len(Reply.result.value.children[1].children) = 1

\* the text "Element not found: {element_id}"
NotFound(query) == Err(<<"Element not found: ", query>>)

\* nothing the host shows answers to the query: no window by its id, no
\* record by composite id, by exact global id or by global-id suffix
NothingMatches(query) ==
    \A i \in 1..Len(host.windows) :
        /\ host.windows[i].id # query
        /\ \A k \in 1..Len(host.windows[i].elements) :
              LET info == host.windows[i].elements[k]
              IN  /\ FullId(host.windows[i].id, info) # query
                  /\ info.global_id # query
                  /\ ~EndsWith(info.global_id, query)

\* C19: get_element answers Err("Element not found: <query>"), naming the
\* query, exactly when the query is no window's id and no record of any
\* window matches it by composite id, exact global id or global-id suffix;
\* in every other case it answers Ok.
C19_NotFoundExactly ==
    GetElementReplied
        => /\ Reply.result = NotFound(Handled.params.element_id)
                <=> NothingMatches(Handled.params.element_id)
           /\ Reply.result.ok <=> ~NothingMatches(Handled.params.element_id)

C19_Witness ==
    /\ GetElementReplied
    /\ Handled.params.element_id = <<"z">>
    /\ host.windows = <<Window1, Window2>>
    /\ Reply.result = NotFound(<<"z">>)
    /\ Reply.id = Handled.id

\* record k of window i answers to the query: by its composite id, by its
\* global id, or by the end of its global id
Answers(i, k, query) ==
    LET w == host.windows[i]
        info == w.elements[k]
    IN  \/ w.id \o <<"/">> \o info.global_id \o <<"[">>
              \o Decimal(info.instance_id) \o <<"]">> = query
        \/ info.global_id = query
        \/ /\ Len(query) <= Len(info.global_id)
           /\ \A n \in 1..Len(query) :
                 info.global_id[Len(info.global_id) - Len(query) + n]
                     = query[n]

\* <<i, k>> is the first record that answers, by window and then by its
\* place among the window's records
FirstAnswer(i, k, query) ==
    /\ Answers(i, k, query)
    /\ \A j \in 1..(k - 1) : ~Answers(i, j, query)
    /\ \A v \in 1..(i - 1) :
          \A j \in 1..Len(host.windows[v].elements) : ~Answers(v, j, query)

\* C35: when the query of get_element is no window's id, the answer is the
\* first record that matches it by composite id, by global id or by the end
\* of its global id, windows in their order and records in the order the
\* window gives them; it comes as a leaf, without children, under its
\* composite id.
C35_FirstMatchingRecord ==
    (GetElementReplied /\ WindowsNamed(Handled.params.element_id) = {})
        => \A i \in 1..Len(host.windows) :
              \A k \in 1..Len(host.windows[i].elements) :
                 FirstAnswer(i, k, Handled.params.element_id)
                    => /\ Reply.result.ok
                       /\ Reply.result.value.id =
                             FullId(host.windows[i].id,
                                    host.windows[i].elements[k])
                       /\ Reply.result.value.children = <<>>
                       /\ Reply.result.value.properties.instance_id =
                             host.windows[i].elements[k].instance_id
                       /\ Reply.result.value.source_location =
                             Some(host.windows[i].elements[k]
                                     .source_location)

\* the query "a" finds a of the first window, the second record there,
\* before the records of the second window
C35_Witness ==
    /\ GetElementReplied
    /\ Handled.params.element_id = <<"a">>
    /\ host.windows = <<Window1, Window2>>
    /\ FirstAnswer(1, 2, <<"a">>)
    /\ Answers(2, 1, <<"a">>)
    /\ Reply.result = Ok(LeafElement(W1Id, Inspected(<<"a">>, 0)))

\* C36: handling get_windows, get_app_state, get_logs, inspect_ui_tree,
\* get_element or take_screenshot leaves the log buffer and the host, its
\* windows and its active window, as they were and dispatches nothing; a
\* step that handles a request appends to the log only for click_element,
\* send_key and execute_action, and dispatches input to the host only for
\* click_element and send_key.
C36_ReadOnlyMethods ==
    [][Handling
          => LET method == Head(bridge).request.method
             IN  /\ method \in {GET_WINDOWS, GET_APP_STATE, GET_LOGS,
                                 INSPECT_UI_TREE, GET_ELEMENT,
                                 TAKE_SCREENSHOT}
                       => /\ logBuffer' = logBuffer
                          /\ host' = host
                          /\ hostEvents' = hostEvents
                 /\ logBuffer' # logBuffer
                       => method \in {CLICK_ELEMENT, SEND_KEY, EXECUTE_ACTION}
                 /\ hostEvents' # hostEvents
                       => method \in {CLICK_ELEMENT, SEND_KEY}
      ]_vars

\* get_app_state has been answered over two windows, the log still holds
\* the three lines it held and nothing was dispatched
C36_Witness ==
    /\ HasReplied
    /\ Handled.method = GET_APP_STATE
    /\ Reply.result.ok
    /\ Reply.result.value.window_count = 2
    /\ Reply.result.value.active_window = Some(W2Id)
    /\ logBuffer = mcp_log(mcp_log(StartedLog, AppMessage(1)), AppMessage(2))
    /\ hostEvents = <<>>
    /\ host.active = 2

\* the windows that report at least one record
WithRecords == {i \in 1..Len(host.windows) : host.windows[i].elements # <<>>}

\* C40: get_element with the empty query answers with the first record of
\* the first window that reports any record, as a leaf; it answers "Element
\* not found: " only when no window reports a record.
C40_EmptyQueryFindsFirst ==
    (GetElementReplied /\ Handled.params.element_id = <<>>)
        => /\ WithRecords # {}
                 => \E i \in WithRecords :
                       /\ \A j \in WithRecords : i <= j
                       /\ Reply.result =
                             Ok(LeafElement(host.windows[i].id,
                                            host.windows[i].elements[1]))
           /\ WithRecords = {} => Reply.result = NotFound(<<>>)

\* the first window reports nothing, the answer is the first record of the
\* second
C40_Witness ==
    /\ GetElementReplied
    /\ Handled.params.element_id = <<>>
    /\ host.windows = <<WindowBare, Window2>>
    /\ WithRecords = {2}
    /\ Reply.result.ok
    /\ Reply.result.value.id = FullId(W2Id, Inspected(<<"a">>, 1))
    /\ Reply.result.value.children = <<>>

(***************************************************************************)
(* Claims about build_element_tree (SpecTree)                              *)
(***************************************************************************)

\* the records the window reported, and the forest in the reply
TreeIn == host.windows[1].elements
TreeOut == routerMsg[1].response.result.value.children
TreeBuilt == routerPc = "send" /\ routerMsg[1].response.result.ok

\* s is an ordering of the set S
OrderingOf(s, S) ==
    Len(s) = Cardinality(S) /\ {s[i] : i \in 1..Len(s)} = S

\* the parent/child edges of a forest, by composite id
RECURSIVE Edges(_)
Edges(forest) ==
    IF Len(forest) = 0 THEN {}
    ELSE LET node == Head(forest)
         IN  {<<node.id, node.children[k].id>> :
                 k \in 1..Len(node.children)}
             \cup Edges(node.children) \cup Edges(Tail(forest))

\* the composite ids of a forest's nodes, one entry per node
RECURSIVE NodeIds(_)
NodeIds(forest) ==
    IF Len(forest) = 0 THEN <<>>
    ELSE <<Head(forest).id>> \o NodeIds(Head(forest).children)
         \o NodeIds(Tail(forest))

RecA == Inspected(<<"a">>, 0)
RecA1 == Inspected(<<"a">>, 1)
RecAB == Inspected(<<"a", ".", "b">>, 0)
RecABC == Inspected(<<"a", ".", "b", ".", "c">>, 0)
RecX == Inspected(<<"x">>, 0)

\* C12: for the records a, a.b, a.b.c and x, given in any order, the forest
\* is exactly: root a with the one child a.b, which has the one child
\* a.b.c, and root x without children.
C12_ChainAndStranger ==
    (TreeBuilt /\ OrderingOf(TreeIn, {RecA, RecAB, RecABC, RecX}))
        => TreeOut =
             <<[LeafElement(W1Id, RecA) EXCEPT !.children =
                  <<[LeafElement(W1Id, RecAB) EXCEPT !.children =
                       <<LeafElement(W1Id, RecABC)>>]>>],
               LeafElement(W1Id, RecX)>>

C12_Witness ==
    /\ TreeBuilt
    /\ TreeIn = <<RecABC, RecX, RecAB, RecA>>
    /\ Len(TreeOut) = 2
    /\ Edges(TreeOut) =
          {<<FullId(W1Id, RecA), FullId(W1Id, RecAB)>>,
           <<FullId(W1Id, RecAB), FullId(W1Id, RecABC)>>}

\* C13: for two records a with instance ids 0 and 1 and one record a.b,
\* given in any order, the roots are the two elements for a, told apart by
\* their composite ids, and a.b is the only child of one of them and the
\* other has none: a.b is no root.
C13_TwinsKeepChild ==
    (TreeBuilt /\ OrderingOf(TreeIn, {RecA, RecA1, RecAB}))
        => /\ Len(TreeOut) = 2
           /\ {TreeOut[1].id, TreeOut[2].id} =
                 {FullId(W1Id, RecA), FullId(W1Id, RecA1)}
           /\ \E p \in {RecA, RecA1} :
                 Edges(TreeOut) = {<<FullId(W1Id, p), FullId(W1Id, RecAB)>>}
           /\ Len(NodeIds(TreeOut)) = 3
           /\ \A k \in 1..2 : TreeOut[k].id # FullId(W1Id, RecAB)

C13_Witness ==
    /\ TreeBuilt
    /\ TreeIn = <<RecAB, RecA1, RecA>>
    /\ TreeOut[1].id = FullId(W1Id, RecA1)
    /\ TreeOut[1].children = <<LeafElement(W1Id, RecAB)>>
    /\ TreeOut[2] = LeafElement(W1Id, RecA)

\* C14: whatever the order in which a set of records is given, the forest
\* has the same parent/child edges, by composite id.
C14_OrderIndependent ==
    TreeBuilt
        => \A other \in TreeInputs :
              OrderingOf(other, {TreeIn[i] : i \in 1..Len(TreeIn)})
                  => Edges(build_element_tree(W1Id, other)) = Edges(TreeOut)

\* the global id of the record behind a composite id
GlobalOf(id) ==
    TreeIn[CHOOSE k \in 1..Len(TreeIn) : FullId(W1Id, TreeIn[k]) = id]
        .global_id

\* C15: the result is a forest over the given records: every composite id
\* of the input is the id of exactly one node, every node that is no root
\* is the child of exactly one node, and every edge leads from a global id
\* to a strictly longer one that extends it past a dot, so no chain of
\* edges comes back to where it began.
C15_Forest ==
    TreeBuilt
        => LET ids == NodeIds(TreeOut)
               edges == Edges(TreeOut)
               roots == {TreeOut[k].id : k \in 1..Len(TreeOut)}
           IN  /\ \A m, n \in 1..Len(ids) : ids[m] = ids[n] => m = n
               /\ {ids[m] : m \in 1..Len(ids)} =
                     {FullId(W1Id, TreeIn[k]) : k \in 1..Len(TreeIn)}
               /\ \A m \in 1..Len(ids) :
                     IF ids[m] \in roots
                     THEN \A e \in edges : e[2] # ids[m]
                     ELSE Cardinality({e \in edges : e[2] = ids[m]}) = 1
               /\ \A e \in edges :
                     /\ e[1] # e[2]
                     /\ IsPrefixCandidate(GlobalOf(e[2]), GlobalOf(e[1]))

C15_Witness ==
    /\ TreeBuilt
    /\ Len(TreeIn) = 4
    /\ Len(TreeOut) = 2
    /\ Cardinality(Edges(TreeOut)) = 2
    /\ \E k \in 1..2 : Len(TreeOut[k].children) = 2

\* p followed by a '.' is a prefix of c
DotPrefix(p, c) ==
    /\ Len(p) + 1 <= Len(c)
    /\ SubSeq(c, 1, Len(p) + 1) = p \o <<".">>

\* the ids of the roots
RootIds == {TreeOut[k].id : k \in 1..Len(TreeOut)}

\* C31: an element is a child of P only if P's global id followed by '.'
\* is a prefix of its own, and no record has a longer such global id than
\* its parent; an element that no other record precedes so is a root, and
\* one that a record with a global id that is not empty precedes so is no
\* root; of a and a.b.c alone, a.b.c is the child of a; of a and ab alone,
\* both are roots.
C31_NearestDottedAncestor ==
    TreeBuilt
        => /\ \A e \in Edges(TreeOut) :
                 /\ DotPrefix(GlobalOf(e[1]), GlobalOf(e[2]))
                 /\ \A k \in 1..Len(TreeIn) :
                       DotPrefix(TreeIn[k].global_id, GlobalOf(e[2]))
                           => Len(TreeIn[k].global_id)
                                 <= Len(GlobalOf(e[1]))
           /\ \A k \in 1..Len(TreeIn) :
                 LET before ==
                         {j \in 1..Len(TreeIn) :
                             DotPrefix(TreeIn[j].global_id,
                                       TreeIn[k].global_id)}
                 IN  /\ before = {} => FullId(W1Id, TreeIn[k]) \in RootIds
                     /\ (\E j \in before : TreeIn[j].global_id # <<>>)
                           => FullId(W1Id, TreeIn[k]) \notin RootIds
           /\ OrderingOf(TreeIn, {RecA, RecABC})
                 => TreeOut = <<[LeafElement(W1Id, RecA) EXCEPT !.children =
                                   <<LeafElement(W1Id, RecABC)>>]>>
           /\ OrderingOf(TreeIn, {RecA, Inspected(<<"a", "b">>, 0)})
                 => (Len(TreeOut) = 2 /\ Edges(TreeOut) = {})

\* a.b.c under a with a.b missing, beside ab, which stays a root
C31_Witness ==
    /\ TreeBuilt
    /\ TreeIn = <<RecABC, Inspected(<<"a", "b">>, 0), RecA>>
    /\ Edges(TreeOut) = {<<FullId(W1Id, RecA), FullId(W1Id, RecABC)>>}
    /\ Len(TreeOut) = 2
    /\ TreeOut[2] = LeafElement(W1Id, Inspected(<<"a", "b">>, 0))

\* the global ids of the roots, in the order of the reply
RootGlobals == [k \in 1..Len(TreeOut) |-> GlobalOf(TreeOut[k].id)]

\* global id g comes no later than h: fewer dots, or as many and g <= h
\* byte by byte
NoLater(g, h) ==
    \/ Depth(g) < Depth(h)
    \/ Depth(g) = Depth(h) /\ StrCmp(g, h) <= 0

\* C32: the roots come by ascending number of dots in their global id and,
\* among as many dots, by ascending global id, in whatever order the host
\* gave the records.
C32_RootsSorted ==
    TreeBuilt
        => \A m, n \in 1..Len(TreeOut) :
              m < n => NoLater(RootGlobals[m], RootGlobals[n])

\* roots ab, x and a.b from the input a.b, x, ab
C32_Witness ==
    /\ TreeBuilt
    /\ TreeIn = <<RecAB, RecX, Inspected(<<"a", "b">>, 0)>>
    /\ RootGlobals = <<<<"a", "b">>, <<"x">>, <<"a", ".", "b">>>>

\* every node of a forest, at any depth
RECURSIVE AllNodes(_)
AllNodes(forest) ==
    IF Len(forest) = 0 THEN {}
    ELSE {Head(forest)} \cup AllNodes(Head(forest).children)
         \cup AllNodes(Tail(forest))

\* C33: the children of every element, at any depth, stand in the reverse
\* of the sorted order: a child with more dots in its global id, or with as
\* many and a later global id, comes before one with fewer or an earlier
\* one, as the pass from the last sorted entry to the first attached them.
C33_ChildrenReverseSorted ==
    TreeBuilt
        => \A node \in AllNodes(TreeOut) :
              \A m, n \in 1..Len(node.children) :
                 m < n => NoLater(GlobalOf(node.children[n].id),
                                  GlobalOf(node.children[m].id))

\* a with the children a.b.c and a.d, in this order
C33_Witness ==
    /\ TreeBuilt
    /\ TreeIn = <<RecA, Inspected(<<"a", ".", "d">>, 0), RecABC>>
    /\ Len(TreeOut) = 1
    /\ TreeOut[1].children =
          <<LeafElement(W1Id, RecABC),
            LeafElement(W1Id, Inspected(<<"a", ".", "d">>, 0))>>

\* the last '/'-separated segment of a source location, without its
\* extension
SegmentStem(src) ==
    LET slashes == {i \in 1..Len(src) : src[i] = "/"}
        segment == IF slashes = {} THEN src
                   ELSE SubSeq(src, SetMax(slashes) + 1, Len(src))
        dots == {i \in 1..Len(segment) : segment[i] = "."}
    IN  IF dots = {} THEN segment
        ELSE SubSeq(segment, 1, SetMax(dots) - 1)

\* C34: the element_type of every element is the last '/'-separated
\* segment of its source location without the extension, and it is
\* "Element" when the source location is empty.
C34_ElementTypeOrGeneric ==
    TreeBuilt
        => \A node \in AllNodes(TreeOut) :
              node.element_type =
                 IF node.source_location = Some(<<>>)
                 THEN <<"E", "l", "e", "m", "e", "n", "t">>
                 ELSE SegmentStem(node.source_location[1])

\* the composite ids of the input are all different
DistinctIds ==
    \A j, k \in 1..Len(TreeIn) :
        FullId(W1Id, TreeIn[j]) = FullId(W1Id, TreeIn[k]) => j = k

\* the composite ids of the records whose global id extends g past a dot
Below(g) ==
    {FullId(W1Id, TreeIn[k]) :
        k \in {n \in 1..Len(TreeIn) : DotPrefix(g, TreeIn[n].global_id)}}

\* C38: when the composite ids of the input are all different, every
\* record is exactly one node of the forest, at some depth, and the forest
\* has no other node: each node is the element of its record, children
\* aside. An element keeps its children when it becomes a child itself: the
\* nodes under an element whose global id no other record has are all the
\* records whose global id extends it past a dot.
C38_NothingLostNothingTwice ==
    (TreeBuilt /\ DistinctIds)
        => /\ Len(NodeIds(TreeOut)) = Len(TreeIn)
           /\ \A k \in 1..Len(TreeIn) :
                 Cardinality({n \in 1..Len(NodeIds(TreeOut)) :
                                 NodeIds(TreeOut)[n]
                                    = FullId(W1Id, TreeIn[k])}) = 1
           /\ \A node \in AllNodes(TreeOut) :
                 /\ \E k \in 1..Len(TreeIn) :
                       [node EXCEPT !.children = <<>>]
                          = LeafElement(W1Id, TreeIn[k])
                 /\ (/\ GlobalOf(node.id) # <<>>
                     /\ Cardinality({k \in 1..Len(TreeIn) :
                            TreeIn[k].global_id = GlobalOf(node.id)}) = 1)
                       => {NodeIds(node.children)[n] :
                              n \in 1..Len(NodeIds(node.children))}
                             = Below(GlobalOf(node.id))

\* a.b already holds a.b.c when it is attached to a, and arrives with it
C38_Witness ==
    /\ TreeBuilt
    /\ DistinctIds
    /\ TreeIn = <<RecAB, RecABC, RecA, RecA1>>
    /\ Len(TreeOut) = 2
    /\ TreeOut[1].id = FullId(W1Id, RecA)
    /\ TreeOut[1].children =
          <<[LeafElement(W1Id, RecAB) EXCEPT !.children =
                <<LeafElement(W1Id, RecABC)>>]>>
    /\ TreeOut[2] = LeafElement(W1Id, RecA1)

\* the records of the input whose global id, not empty, the global id of
\* record k extends past a dot, and the longest of these global ids
Ancestors(k) ==
    {j \in 1..Len(TreeIn) :
        /\ TreeIn[j].global_id # <<>>
        /\ DotPrefix(TreeIn[j].global_id, TreeIn[k].global_id)}
Nearest(k) ==
    {j \in Ancestors(k) :
        \A n \in Ancestors(k) :
           Len(TreeIn[n].global_id) <= Len(TreeIn[j].global_id)}

\* C39: where several records have the global id that is the longest
\* dot-bounded prefix of a child's global id, the child is attached to the
\* one of them that the host gave first, by composite id, and is the child
\* of no other element.
C39_FirstTwinGetsChild ==
    TreeBuilt
        => \A k \in 1..Len(TreeIn) :
              Nearest(k) # {}
                 => LET first == CHOOSE j \in Nearest(k) :
                                    \A n \in Nearest(k) : j <= n
                        child == FullId(W1Id, TreeIn[k])
                    IN  {e \in Edges(TreeOut) : e[2] = child}
                           = {<<FullId(W1Id, TreeIn[first]), child>>}

\* a[1] comes before a[0] in the input and gets a.b.c
C39_Witness ==
    /\ TreeBuilt
    /\ TreeIn = <<RecA1, RecA, RecABC>>
    /\ Nearest(3) = {1, 2}
    /\ TreeOut = <<[LeafElement(W1Id, RecA1) EXCEPT !.children =
                       <<LeafElement(W1Id, RecABC)>>],
                   LeafElement(W1Id, RecA)>>

\* the handlers blocked in recv_timeout
Waiting == {c \in Conns : connPc[c] = "wait"}

\* C26: however many handlers wait for a reply, and whether or not the
\* router ticks, the listener accepts the next connection and a handler at
\* the head of its loop reads its next request and sends it to the bridge;
\* a step of the listener or of one handler moves no other handler.
C26_WaitBlocksNoOne ==
    /\ []((listenerPc = "accept" /\ NextConn <= PeerConns(peers))
            => ENABLED ListenerAccept(NextConn))
    /\ [](\A c \in Conns :
            (connPc[c] = "read" /\ framesRead[c] < PeerFrames(peers))
                => \A request \in PeerRequests(peers) :
                      ENABLED ConnReadRequest(c, request))
    /\ [][\A c \in Conns :
            (connPc'[c] # connPc[c] \/ framesRead'[c] # framesRead[c])
                => \A d \in Conns \ {c} :
                      /\ connPc'[d] = connPc[d]
                      /\ framesRead'[d] = framesRead[d]
                      /\ connResp'[d] = connResp[d]
                      /\ chanBuf'[d] = chanBuf[d]]_vars

\* both handlers wait, the second having sent its request after the first,
\* and the router has not woken
C26_Witness ==
    /\ Waiting = Conns
    /\ routerPc = "timer"
    /\ Len(bridge) = NumConns
    /\ \A c \in Conns : bridge[c].chan = Chan(c, 1)
    /\ timedOut = {} /\ hostEvents = <<>>
    /\ \A c \in Conns : written[c] = <<>>
    /\ incoming = <<1, 0, 2>>

(***************************************************************************)
(* Claims about the router and the bridge (SpecRouter, SpecWait, SpecTick) *)
(***************************************************************************)

\* the reply channels of the requests sent to the bridge, of those the
\* router has handled, and of those that wait in the bridge, each in order
EnqueuedChans == [k \in 1..Len(enqueued) |-> enqueued[k].chan]
HandledChans == [k \in 1..Len(handledSeq) |-> handledSeq[k].chan]
BridgeChans == [k \in 1..Len(bridge) |-> bridge[k].chan]
IsHandled(chan) == \E k \in 1..Len(handledSeq) : handledSeq[k].chan = chan

\* the router's next step handles a request
CanHandle == ENABLED (\E handled \in BOOLEAN, now \in Clock :
                         RouterHandle(handled, now))

\* C24: once awake the router handles every request in the bridge, those
\* sent to it while it drains included, and goes back to its timer only
\* when try_recv has found the bridge empty.
C24_DrainsAll ==
    /\ [](\A k \in 1..Len(enqueued) :
            (enqueued[k].draining /\ ~IsHandled(enqueued[k].chan))
                => routerPc # "timer")
    /\ []((routerPc = "drain" /\ bridge # <<>>)
            => (CanHandle /\ ~ENABLED RouterYield))
    /\ [][(routerPc # "timer" /\ routerPc' = "timer")
            => (routerPc = "drain" /\ bridge = <<>> /\ bridge' = <<>>)]_vars

C24_Witness ==
    /\ routerPc = "timer" /\ bridge = <<>>
    /\ Len(enqueued) = 2
    /\ ~enqueued[1].draining /\ enqueued[2].draining
    /\ HandledChans = EnqueuedChans

\* the receiver of the reply the router is about to send is gone
SendWillFail ==
    /\ routerPc = "send"
    /\ connPc[routerMsg[1].chan.conn] \notin {"wait", "write"}

\* C25: a send of the router that fails because the connection handler has
\* given up is dropped: the router is back in its loop with nothing queued
\* for anyone and nothing put back, it handles the request once only, and
\* it goes on handling what is in the bridge and waking later.
C25_FailedSendIgnored ==
    /\ [][(SendWillFail /\ routerPc' # "send")
            => /\ routerPc' = "drain" /\ routerMsg' = <<>>
               /\ chanBuf' = chanBuf /\ bridge' = bridge
               /\ logBuffer' = logBuffer /\ hostEvents' = hostEvents
               /\ handledSeq'[Len(handledSeq')].sent = "lost"]_vars
    /\ [](/\ routerPc \in {"timer", "drain", "send"}
          /\ routerPc = "send" => ENABLED RouterSend
          /\ (routerPc = "drain" /\ bridge # <<>>) => CanHandle
          /\ (routerPc = "drain" /\ bridge = <<>>) => ENABLED RouterYield
          /\ routerPc = "timer" => ENABLED RouterWake)
    /\ [](\A k \in 1..Len(handledSeq) :
            handledSeq[k].sent = "lost"
                => /\ \A j \in 1..Len(handledSeq) :
                        handledSeq[j].chan = handledSeq[k].chan => j = k
                   /\ \A j \in 1..Len(bridge) :
                        bridge[j].chan # handledSeq[k].chan
                   /\ chanBuf[handledSeq[k].chan.conn] = <<>>)

\* the reply to connection 1 was lost, then connection 2 was served in a
\* later tick
C25_Witness ==
    /\ Len(handledSeq) = 2
    /\ handledSeq[1] = [chan |-> Chan(1, 1), late |-> TRUE, sent |-> "lost"]
    /\ handledSeq[2].chan = Chan(2, 1) /\ handledSeq[2].sent = "queued"
    /\ ~enqueued[2].draining
    /\ Len(written[2]) = 1
    /\ written[2][1].from = Chan(2, 1)
    /\ written[2][1].response.result.ok
    /\ routerPc = "timer"

\* C27: the router handles one request at a time: a step that touches the
\* host or the log is the whole handler of the request at the head of the
\* bridge, it is taken only when the reply of the request before it has
\* been sent or dropped, and no request is taken while a reply is unsent.
C27_OneHandlerAtATime ==
    /\ [][(\/ hostEvents' # hostEvents
           \/ logBuffer' # logBuffer
           \/ handledSeq' # handledSeq /\ Len(handledSeq') > Len(handledSeq))
            => /\ routerPc = "drain" /\ routerMsg = <<>>
               /\ routerPc' = "send"
               /\ \A k \in 1..Len(handledSeq) :
                     handledSeq[k].sent # "pending"
               /\ Len(handledSeq') = Len(handledSeq) + 1
               /\ handledSeq'[Len(handledSeq')].chan = Head(bridge).chan
               /\ \E handled \in BOOLEAN, now \in Clock :
                     LET out == handle_request(Head(bridge).request, host,
                                               logBuffer, handled, now)
                     IN  /\ hostEvents' = hostEvents \o out.events
                         /\ logBuffer' = out.log]_vars
    /\ [](routerPc = "send" => (Len(routerMsg) = 1 /\ ~CanHandle))
    /\ [](\A k \in 1..Len(handledSeq) :
            handledSeq[k].sent = "pending"
                => (k = Len(handledSeq) /\ routerPc = "send"))

\* two clicks handled one after the other, each reply sent before the next
\* handler ran
C27_Witness ==
    /\ Len(handledSeq) = 2
    /\ handledSeq[1].sent = "queued" /\ handledSeq[2].sent = "pending"
    /\ routerPc = "send"
    /\ Len(hostEvents) = 2
    /\ hostEvents[1].kind = "click" /\ hostEvents[2].kind = "click"
    /\ Len(logBuffer) = 3

\* the request at the head of the bridge is one whose handler has timed out
HeadTimedOut ==
    routerPc = "drain" /\ bridge # <<>> /\ Head(bridge).chan \in timedOut

\* C28: a timeout cancels nothing: the request whose handler timed out
\* stays in the bridge until the router takes it, and the router then runs
\* it like any other, click dispatched and log line written.
C28_TimeoutCancelsNothing ==
    /\ [](\A chan \in timedOut :
            \/ \E k \in 1..Len(bridge) : bridge[k].chan = chan
            \/ IsHandled(chan))
    /\ [](HeadTimedOut => CanHandle)
    /\ [][timedOut' # timedOut
            => (bridge' = bridge /\ hostEvents' = hostEvents
                /\ logBuffer' = logBuffer)]_vars
    /\ [][(HeadTimedOut /\ Len(bridge') < Len(bridge))
            => LET asked == Head(bridge).request
               IN  /\ bridge' = Tail(bridge)
                   /\ routerMsg'[1].response.id = asked.id
                   /\ routerMsg'[1].response.result.ok
                   /\ hostEvents' =
                         Append(hostEvents,
                                [kind |-> "click",
                                 window |-> host.windows[host.active].id,
                                 position |-> <<asked.params.x,
                                                asked.params.y>>,
                                 button |-> asked.params.button])
                   /\ logBuffer' =
                         Append(logBuffer,
                                <<"Click at (", ToString(asked.params.x),
                                  ", ", ToString(asked.params.y), ")">>)
                   /\ handledSeq'[Len(handledSeq')].late]_vars

\* connection 1 timed out, its click was dispatched and logged after that,
\* and what it wrote is the timeout response
C28_Witness ==
    /\ Len(handledSeq) = 1
    /\ handledSeq[1].chan = Chan(1, 1) /\ handledSeq[1].late
    /\ written[1] = <<[response |-> TimeoutResponse, from |-> NoChan]>>
    /\ Len(hostEvents) = 1 /\ hostEvents[1].kind = "click"
    /\ Len(logBuffer) = 2
    /\ logBuffer[2][1] = "Click at ("

\* every reply channel a connection may create
AllChans == {Chan(c, n) : c \in Conns, n \in 1..MaxFrames}

\* C29: a handler that waits for a reply stops waiting and its response is
\* written (or the write fails, the peer's socket being gone), whether or
\* not the router ever takes the request: without a reply recv_timeout
\* returns and the timeout response is what is written.
C29_WaitEnds ==
    /\ [](\A c \in Conns :
            connPc[c] = "wait"
                => ENABLED (ConnRecvReply(c) \/ ConnRecvTimeout(c)))
    /\ \A c \in Conns : \A n \in 1..MaxFrames :
          (connPc[c] = "wait" /\ framesRead[c] = n)
              ~> (Len(written[c]) >= n \/ connPc[c] = "writeFailed")
    /\ [](\A c \in Conns : \A n \in 1..Len(written[c]) :
            Chan(c, n) \in timedOut
                => written[c][n].response.result = Err(<<"Request timeout">>))

\* the router never woke, and both handlers have written a response
C29_Witness ==
    /\ routerPc = "timer" /\ handledSeq = <<>>
    /\ Len(bridge) = NumConns
    /\ \A c \in Conns :
          /\ Len(written[c]) = 1
          /\ ~written[c][1].response.result.ok
          /\ connPc[c] # "wait"

\* C30: with the router's task scheduled, every request sent to the bridge
\* is taken from it and handled, once, in the order of sending: the
\* requests handled followed by those that wait are, at all times, the
\* requests sent.
C30_AllHandledInOrder ==
    /\ [](HandledChans \o BridgeChans = EnqueuedChans)
    /\ [](\A j, k \in 1..Len(enqueued) :
            enqueued[j].chan = enqueued[k].chan => j = k)
    /\ \A chan \in AllChans :
          (\E k \in 1..Len(bridge) : bridge[k].chan = chan)
              ~> IsHandled(chan)

\* two requests handled in the order they were sent, the second
\* connection's first
C30_Witness ==
    /\ EnqueuedChans = <<Chan(2, 1), Chan(1, 1)>>
    /\ HandledChans = EnqueuedChans
    /\ bridge = <<>>
    /\ \A k \in 1..2 : handledSeq[k].sent # "pending"

====
